---------------------------- MODULE Spec2Model ----------------------------
(***************************************************************************)
(* EIP-712 typed-data and personal-message signing of the usbwallet        *)
(* package: the Ledger driver (one-shot upload of struct definitions and   *)
(* values, then a signing command) and the Trezor driver (the device asks  *)
(* for struct types and values, the host answers), with the type parser    *)
(* they share.                                                             *)
(*                                                                         *)
(* Go strings are sequences of one-character strings, byte slices are      *)
(* sequences of numbers 0..255.  A document value (interface{}) is a       *)
(* record [k, v]: k = "str" (string), "bool", "num" (float64 holding an    *)
(* integer), "hexdec" (a math.HexOrDecimal256 pointer), "bytes" ([]byte),   *)
(* "arr" ([]interface{}), "map" (map[string]interface{}), "nil".           *)
(***************************************************************************)
EXTENDS Integers, Sequences, FiniteSets, TLC

\* ------------------------------------------------------------------ bounds

\* Most exchanges one Trezor call may make before the device is cut off.
MaxRounds == 3
\* Longest member path of a value query, and the largest index in it.
MaxPathLen == 4
MaxIndex == 2

\* ----------------------------------------------------- strings and bytes

Digits == {"0", "1", "2", "3", "4", "5", "6", "7", "8", "9"}

IsDigit(c) == c \in Digits

DigitVal(c) ==
    CASE c = "0" -> 0 [] c = "1" -> 1 [] c = "2" -> 2 [] c = "3" -> 3
      [] c = "4" -> 4 [] c = "5" -> 5 [] c = "6" -> 6 [] c = "7" -> 7
      [] c = "8" -> 8 [] c = "9" -> 9

\* The ASCII digits (from 48), capitals (from 65) and small letters (from 97).
AsciiDigits == << "0", "1", "2", "3", "4", "5", "6", "7", "8", "9" >>

AsciiUpper ==
    << "A", "B", "C", "D", "E", "F", "G", "H", "I", "J", "K", "L", "M", "N",
       "O", "P", "Q", "R", "S", "T", "U", "V", "W", "X", "Y", "Z" >>

AsciiLower ==
    << "a", "b", "c", "d", "e", "f", "g", "h", "i", "j", "k", "l", "m", "n",
       "o", "p", "q", "r", "s", "t", "u", "v", "w", "x", "y", "z" >>

PosIn(seq, c) == CHOOSE i \in 1..Len(seq) : seq[i] = c

\* The byte of a character: []byte(s)[i].
CharCode(c) ==
    CASE \E i \in 1..10 : AsciiDigits[i] = c -> 47 + PosIn(AsciiDigits, c)
      [] \E i \in 1..26 : AsciiUpper[i] = c -> 64 + PosIn(AsciiUpper, c)
      [] \E i \in 1..26 : AsciiLower[i] = c -> 96 + PosIn(AsciiLower, c)
      [] c = " " -> 32
      [] c = "[" -> 91
      [] c = "]" -> 93
      [] c = "_" -> 95

\* []byte(s)
StrBytes(s) == [i \in 1..Len(s) |-> CharCode(s[i])]

\* strings.HasPrefix, strings.HasSuffix
HasPrefix(s, p) == Len(s) >= Len(p) /\ SubSeq(s, 1, Len(p)) = p

HasSuffix(s, p) == Len(s) >= Len(p) /\ SubSeq(s, Len(s) - Len(p) + 1, Len(s)) = p

\* strings.Index(s, c) and strings.LastIndex(s, c) for a one-character c,
\* 0-based as in Go, -1 when c does not occur.
IndexOf(s, c) ==
    IF \E i \in 1..Len(s) : s[i] = c
    THEN (CHOOSE i \in 1..Len(s) : s[i] = c /\ \A j \in 1..(i - 1) : s[j] # c) - 1
    ELSE -1

LastIndexOf(s, c) ==
    IF \E i \in 1..Len(s) : s[i] = c
    THEN (CHOOSE i \in 1..Len(s) : s[i] = c /\ \A j \in (i + 1)..Len(s) : s[j] # c) - 1
    ELSE -1

IsSpace(c) == c \in {" ", "\t", "\n", "\r"}

\* strings.TrimSpace
TrimSpace(s) ==
    IF \A i \in 1..Len(s) : IsSpace(s[i]) THEN << >>
    ELSE LET a == CHOOSE i \in 1..Len(s) : ~IsSpace(s[i]) /\ \A j \in 1..(i - 1) : IsSpace(s[j])
             b == CHOOSE i \in 1..Len(s) : ~IsSpace(s[i]) /\ \A j \in (i + 1)..Len(s) : IsSpace(s[j])
         IN  SubSeq(s, a, b)

\* strconv.Atoi of a run of digits ("" gives 0, its error is dropped by the callers).
RECURSIVE Atoi(_)
Atoi(s) == IF s = << >> THEN 0 ELSE 10 * Atoi(SubSeq(s, 1, Len(s) - 1)) + DigitVal(s[Len(s)])

\* big.Int.Bytes(): the big-endian magnitude without leading zeros (0 is empty).
RECURSIVE NatBytes(_)
NatBytes(n) == IF n = 0 THEN << >> ELSE Append(NatBytes(n \div 256), n % 256)

\* The number a big-endian byte string stands for.
RECURSIVE BytesNat(_)
BytesNat(b) == IF b = << >> THEN 0 ELSE 256 * BytesNat(SubSeq(b, 1, Len(b) - 1)) + b[Len(b)]

Abs(n) == IF n < 0 THEN 0 - n ELSE n

\* binary.BigEndian.AppendUint16([]byte{}, uint16(n))
Uint16BE(n) == << (n % 65536) \div 256, n % 256 >>

\* binary.BigEndian.PutUint32
Uint32BE(n) ==
    << (n \div 16777216) % 256, (n \div 65536) % 256, (n \div 256) % 256, n % 256 >>

HexVal(c) ==
    CASE IsDigit(c) -> DigitVal(c)
      [] c \in {"a", "A"} -> 10 [] c \in {"b", "B"} -> 11 [] c \in {"c", "C"} -> 12
      [] c \in {"d", "D"} -> 13 [] c \in {"e", "E"} -> 14 [] c \in {"f", "F"} -> 15
      [] OTHER -> 0 - 1

\* encoding/hex.DecodeString: the bytes decoded before the first bad character
\* (all of them without one), and whether decoding failed (a bad character
\* or an odd length).
RECURSIVE HexPairs(_)
HexPairs(s) ==
    IF Len(s) < 2 \/ HexVal(s[1]) < 0 \/ HexVal(s[2]) < 0 THEN << >>
    ELSE << 16 * HexVal(s[1]) + HexVal(s[2]) >> \o HexPairs(SubSeq(s, 3, Len(s)))

HexDecodeString(s) ==
    [bytes |-> HexPairs(s),
     err   |-> Len(s) % 2 = 1 \/ \E i \in 1..Len(s) : HexVal(s[i]) < 0]

\* common.FromHex: drops a 0x or 0X prefix, pads an odd length with a leading
\* "0", and keeps what hex.DecodeString decoded whatever its error.
FromHex(s) ==
    LET t == IF Len(s) >= 2 /\ s[1] = "0" /\ s[2] \in {"x", "X"} THEN SubSeq(s, 3, Len(s)) ELSE s
        u == IF Len(t) % 2 = 1 THEN << "0" >> \o t ELSE t
    IN  HexPairs(u)

\* ------------------------------------------------------------- parseType

CustomType == 0
IntType == 1
UintType == 2
AddressType == 3
BoolType == 4
StringType == 5
FixedBytesType == 6
BytesType == 7

s_int == << "i", "n", "t" >>
s_uint == << "u", "i", "n", "t" >>
s_address == << "a", "d", "d", "r", "e", "s", "s" >>
s_bool == << "b", "o", "o", "l" >>
s_string == << "s", "t", "r", "i", "n", "g" >>
s_bytes == << "b", "y", "t", "e", "s" >>

nameToType ==
    (s_int :> IntType) @@ (s_uint :> UintType) @@ (s_address :> AddressType)
        @@ (s_bool :> BoolType) @@ (s_string :> StringType) @@ (s_bytes :> BytesType)

\* data.Types[name] != nil: the struct is declared.  An undeclared name
\* reads as the nil slice.
HasType(types, name) == name \in DOMAIN types

TypeFields(types, name) == IF HasType(types, name) THEN types[name] ELSE << >>

\* The end of the run of digits that starts at position i.
RECURSIVE DigitRunEnd(_, _)
DigitRunEnd(s, i) == IF i <= Len(s) /\ IsDigit(s[i]) THEN DigitRunEnd(s, i + 1) ELSE i

\* regexp `\[(\d*)]`, FindAllStringSubmatch: the digit groups of the matches
\* from position i on, left to right.
RECURSIVE FindArrayLengths(_, _)
FindArrayLengths(s, i) ==
    IF i > Len(s) THEN << >>
    ELSE IF s[i] = "["
         THEN LET j == DigitRunEnd(s, i + 1)
              IN  IF j <= Len(s) /\ s[j] = "]"
                  THEN << SubSeq(s, i + 1, j - 1) >> \o FindArrayLengths(s, j + 1)
                  ELSE FindArrayLengths(s, i + 1)
         ELSE FindArrayLengths(s, i + 1)

\* One array level: nil (dynamic) for an empty group, else its length.
ArrayLevel(group) ==
    IF group = << >> THEN [fixed |-> FALSE, len |-> 0]
    ELSE [fixed |-> TRUE, len |-> Atoi(group)]

\* regexp `^(.+?)(\d*)$`: the shortest non-empty prefix that leaves only
\* digits; no match on the empty string.
BasePrefixLen(name) ==
    CHOOSE k \in 1..Len(name) :
        /\ \A i \in (k + 1)..Len(name) : IsDigit(name[i])
        /\ \A m \in 1..(k - 1) : \E i \in (m + 1)..Len(name) : ~IsDigit(name[i])

ParseResult(dt, name, byteLength, arrays, err) ==
    [dt |-> dt, name |-> name, byteLength |-> byteLength, arrays |-> arrays, err |-> err]

\* Variant of parseWidth: the width of a sized type is not held to 1..32.
parseWidthNoRange(dt, prefix, lengthStr, n, arrays) ==
    IF dt = UintType \/ dt = IntType
    THEN IF lengthStr = << >> THEN ParseResult(dt, prefix, 32, arrays, "none")
         ELSE IF n % 8 # 0 THEN ParseResult(dt, prefix, n, arrays, "InvalidLength")
         ELSE ParseResult(dt, prefix, n \div 8, arrays, "none")
    ELSE IF lengthStr # << >>
    THEN IF dt = BytesType
         THEN ParseResult(FixedBytesType, prefix, n, arrays, "none")
         ELSE ParseResult(dt, prefix, n, arrays, "InvalidType")
    ELSE IF dt = AddressType THEN ParseResult(dt, prefix, 20, arrays, "none")
    ELSE ParseResult(dt, prefix, 0, arrays, "none")

\* The width rules of a primitive base name (everything after the lookup of
\* the prefix in nameToType); n is Atoi(lengthStr).
parseWidth(dt, prefix, lengthStr, n, arrays) ==
    IF dt = UintType \/ dt = IntType
    THEN IF lengthStr = << >> THEN ParseResult(dt, prefix, 32, arrays, "none")
         ELSE IF n % 8 # 0 THEN ParseResult(dt, prefix, n, arrays, "InvalidLength")
         ELSE IF n \div 8 < 1 \/ n \div 8 > 32
              THEN ParseResult(dt, prefix, n \div 8, arrays, "InvalidLength")
              ELSE ParseResult(dt, prefix, n \div 8, arrays, "none")
    ELSE IF lengthStr # << >>
    THEN IF dt = BytesType
         THEN IF n < 1 \/ n > 32
              THEN ParseResult(FixedBytesType, prefix, n, arrays, "InvalidLength")
              ELSE ParseResult(FixedBytesType, prefix, n, arrays, "none")
         ELSE ParseResult(dt, prefix, n, arrays, "InvalidType")
    ELSE IF dt = AddressType THEN ParseResult(dt, prefix, 20, arrays, "none")
    ELSE ParseResult(dt, prefix, 0, arrays, "none")

\* The lookup of the base name in nameToType.
parseBase(prefix, lengthStr, arrays) ==
    IF prefix \notin DOMAIN nameToType
    THEN ParseResult(CustomType, prefix, 0, arrays, "UnknownType")
    ELSE parseWidth(nameToType[prefix], prefix, lengthStr, Atoi(lengthStr), arrays)

\* parseType from the name without its array suffixes on: a declared
\* struct, else the split into base name and digits ("panic": the index
\* into the nil match of an empty name).
parseName(types, name, arrays) ==
    IF HasType(types, name) THEN ParseResult(CustomType, name, 0, arrays, "none")
    ELSE IF name = << >> THEN ParseResult(CustomType, name, 0, arrays, "panic")
    ELSE parseBase(SubSeq(name, 1, BasePrefixLen(name)),
                   SubSeq(name, BasePrefixLen(name) + 1, Len(name)), arrays)

\* The array levels of the trimmed type string, and the name before them.
parseArrays(types, trimmed, groups) ==
    parseName(types,
              IF Len(groups) > 0 THEN SubSeq(trimmed, 1, IndexOf(trimmed, "[")) ELSE trimmed,
              [i \in 1..Len(groups) |-> ArrayLevel(groups[i])])

parseTrimmed(types, trimmed) == parseArrays(types, trimmed, FindArrayLengths(trimmed, 1))

\* parseType(data, field): err is "none", a parse error, or "panic".
parseType(types, fieldType) == parseTrimmed(types, TrimSpace(fieldType))

\* ------------------------------------------------------ document values

VNil == [k |-> "nil", v |-> << >>]

VStr(s) == [k |-> "str", v |-> s]

VBool(b) == [k |-> "bool", v |-> b]

VNum(n) == [k |-> "num", v |-> n]

VHexDec(n) == [k |-> "hexdec", v |-> n]

VBytes(b) == [k |-> "bytes", v |-> b]

VArr(a) == [k |-> "arr", v |-> a]

VMap(m) == [k |-> "map", v |-> m]

\* m[key] of a Go map: the nil interface for a missing key.
MapGet(m, key) == IF key \in DOMAIN m THEN m[key] ELSE VNil

Field(name, type) == [Name |-> name, Type |-> type]

s_EIP712Domain == << "E", "I", "P", "7", "1", "2", "D", "o", "m", "a", "i", "n" >>
s_name == << "n", "a", "m", "e" >>
s_version == << "v", "e", "r", "s", "i", "o", "n" >>
s_chainId == << "c", "h", "a", "i", "n", "I", "d" >>
s_verifyingContract ==
    << "v", "e", "r", "i", "f", "y", "i", "n", "g", "C", "o", "n", "t", "r", "a", "c", "t" >>
s_salt == << "s", "a", "l", "t" >>

\* TypedDataDomain.Map(): only the fields that are set, the chain id as the
\* math.HexOrDecimal256 pointer it is held in (NoChainId: the nil pointer).
NoChainId == 0 - 1

DomainMap(domain) ==
    LET keys == (IF domain.ChainId # NoChainId THEN {s_chainId} ELSE {})
                \cup (IF Len(domain.Name) > 0 THEN {s_name} ELSE {})
                \cup (IF Len(domain.Version) > 0 THEN {s_version} ELSE {})
                \cup (IF Len(domain.VerifyingContract) > 0 THEN {s_verifyingContract} ELSE {})
                \cup (IF Len(domain.Salt) > 0 THEN {s_salt} ELSE {})
    IN  [key \in keys |->
            CASE key = s_chainId -> VHexDec(domain.ChainId)
              [] key = s_name -> VStr(domain.Name)
              [] key = s_version -> VStr(domain.Version)
              [] key = s_verifyingContract -> VStr(domain.VerifyingContract)
              [] key = s_salt -> VStr(domain.Salt)]

Domain(name, chainId) ==
    [Name |-> name, Version |-> << >>, ChainId |-> chainId,
     VerifyingContract |-> << >>, Salt |-> << >>]

TypedData(types, primaryType, domain, message) ==
    [Types |-> types, PrimaryType |-> primaryType, Domain |-> domain, Message |-> message]

\* ------------------------------------------------------- the documents

s_Mail == << "M", "a", "i", "l" >>
s_from == << "f", "r", "o", "m" >>
s_to == << "t", "o" >>
s_Order == << "O", "r", "d", "e", "r" >>
s_Person == << "P", "e", "r", "s", "o", "n" >>
s_Bad == << "B", "a", "d" >>
s_Worse == << "W", "o", "r", "s", "e" >>
s_Blob == << "B", "l", "o", "b" >>
s_Void == << "V", "o", "i", "d" >>
s_Nest == << "N", "e", "s", "t" >>
s_id == << "i", "d" >>
s_grid == << "g", "r", "i", "d" >>
s_maker == << "m", "a", "k", "e", "r" >>
s_ok == << "o", "k" >>
s_tags == << "t", "a", "g", "s" >>
s_data == << "d", "a", "t", "a" >>
s_n == << "n" >>
s_who == << "w", "h", "o" >>
s_gone == << "g", "o", "n", "e" >>
s_flag == << "f", "l", "a", "g" >>
s_string_arr == << "s", "t", "r", "i", "n", "g", "[", "]" >>
s_uint8 == << "u", "i", "n", "t", "8" >>
s_uint16 == << "u", "i", "n", "t", "1", "6" >>
s_uint256 == << "u", "i", "n", "t", "2", "5", "6" >>
s_bytes2 == << "b", "y", "t", "e", "s", "2" >>
s_uint16_2_dyn == << "u", "i", "n", "t", "1", "6", "[", "2", "]", "[", "]" >>
s_x == << "x" >>
s_y == << "y" >>
s_d == << "d" >>
s_0x7801 == << "0", "x", "7", "8", "0", "1" >>
s_Odd == << "O", "d", "d" >>
s_uint7 == << "u", "i", "n", "t", "7" >>

\* The Mail document of the README, cut to two fields.
DocMail ==
    TypedData(
        (s_EIP712Domain :> << Field(s_name, s_string) >>)
            @@ (s_Mail :> << Field(s_from, s_string), Field(s_to, s_string) >>),
        s_Mail,
        Domain(s_d, NoChainId),
        (s_from :> VStr(s_x)) @@ (s_to :> VStr(s_y)))

\* Numbers, fixed bytes, a nested struct, an array and a two-dimensional array.
DocOrder ==
    TypedData(
        (s_EIP712Domain :> << Field(s_name, s_string), Field(s_salt, s_bytes2) >>)
            @@ (s_Order :> << Field(s_id, s_uint16), Field(s_grid, s_uint16_2_dyn),
                              Field(s_maker, s_Person) >>)
            @@ (s_Person :> << Field(s_name, s_string), Field(s_ok, s_bool),
                               Field(s_tags, s_string_arr) >>),
        s_Order,
        [Domain(s_d, NoChainId) EXCEPT !.Salt = s_0x7801],
        (s_id :> VNum(5))
            @@ (s_grid :> VArr(<< VArr(<< VNum(1), VNum(2) >>), VArr(<< VNum(3), VNum(4) >>) >>))
            @@ (s_maker :> VMap((s_name :> VStr(s_x)) @@ (s_ok :> VBool(TRUE))
                                    @@ (s_tags :> VArr(<< VStr(s_x), VStr(s_y) >>)))))

\* No EIP712Domain struct.
DocNoDomain ==
    TypedData(
        (s_Mail :> << Field(s_from, s_string), Field(s_to, s_string) >>),
        s_Mail,
        Domain(s_d, NoChainId),
        (s_from :> VStr(s_x)) @@ (s_to :> VStr(s_y)))

\* The primary type is not declared.
DocNoPrimary ==
    TypedData(
        (s_EIP712Domain :> << Field(s_name, s_string) >>),
        s_Mail,
        Domain(s_d, NoChainId),
        (s_from :> VStr(s_x)) @@ (s_to :> VStr(s_y)))

\* Values that do not have the declared shape: a string for an array, a byte
\* slice for bytes, an array for a number.
DocBad ==
    TypedData(
        (s_EIP712Domain :> << Field(s_name, s_string) >>)
            @@ (s_Bad :> << Field(s_tags, s_string_arr), Field(s_data, s_bytes),
                            Field(s_n, s_uint8) >>),
        s_Bad,
        Domain(s_d, NoChainId),
        (s_tags :> VStr(s_x)) @@ (s_data :> VBytes(<< 1, 2, 3 >>))
            @@ (s_n :> VArr(<< VNum(1) >>)))

\* An array for a struct, a boolean for a number, a field without a value.
DocWorse ==
    TypedData(
        (s_EIP712Domain :> << Field(s_name, s_string) >>)
            @@ (s_Worse :> << Field(s_who, s_Person), Field(s_flag, s_uint8),
                              Field(s_gone, s_string) >>)
            @@ (s_Person :> << Field(s_name, s_string) >>),
        s_Worse,
        Domain(s_d, NoChainId),
        (s_who :> VArr(<< VStr(s_x) >>)) @@ (s_flag :> VBool(TRUE)))

\* An array of strings that holds an array where a string is declared.
DocNest ==
    TypedData(
        (s_EIP712Domain :> << Field(s_name, s_string) >>)
            @@ (s_Nest :> << Field(s_tags, s_string_arr) >>),
        s_Nest,
        Domain(s_d, NoChainId),
        (s_tags :> VArr(<< VArr(<< VStr(s_x) >>), VStr(s_y) >>)))

\* A chain id in the domain, bytes and fixed bytes as hex strings, a struct
\* declared without fields.
DocBlob ==
    TypedData(
        (s_EIP712Domain :> << Field(s_name, s_string), Field(s_chainId, s_uint256) >>)
            @@ (s_Blob :> << Field(s_data, s_bytes), Field(s_salt, s_bytes2) >>)
            @@ (s_Void :> << >>),
        s_Blob,
        Domain(s_d, 1),
        (s_data :> VStr(s_0x7801)) @@ (s_salt :> VStr(s_0x7801)))

\* A field whose type does not resolve (a width that is no multiple of 8),
\* after one that does.
DocOdd ==
    TypedData(
        (s_EIP712Domain :> << Field(s_name, s_string) >>)
            @@ (s_Odd :> << Field(s_id, s_uint16), Field(s_n, s_uint7) >>),
        s_Odd,
        Domain(s_d, NoChainId),
        (s_id :> VNum(5)) @@ (s_n :> VNum(1)))

s_Pair == << "P", "a", "i", "r" >>
s_a == << "a" >>
s_b == << "b" >>
s_hi == << "h", "i" >>
s_Leaves == << "L", "e", "a", "v", "e", "s" >>

\* Two primitive fields: a small number and a string.
DocPair ==
    TypedData(
        (s_EIP712Domain :> << Field(s_name, s_string) >>)
            @@ (s_Pair :> << Field(s_a, s_uint8), Field(s_b, s_string) >>),
        s_Pair,
        Domain(s_d, NoChainId),
        (s_a :> VNum(5)) @@ (s_b :> VStr(s_hi)))

\* A boolean, and a number of two bytes.
DocLeaves ==
    TypedData(
        (s_EIP712Domain :> << Field(s_name, s_string) >>)
            @@ (s_Leaves :> << Field(s_ok, s_bool), Field(s_id, s_uint16) >>),
        s_Leaves,
        Domain(s_d, NoChainId),
        (s_ok :> VBool(TRUE)) @@ (s_id :> VNum(300)))

s_Wide == << "W", "i", "d", "e" >>
s_uint8_256 == << "u", "i", "n", "t", "8", "[", "2", "5", "6", "]" >>

\* An array of 256 numbers, declared with that length.
DocWide ==
    TypedData(
        (s_EIP712Domain :> << Field(s_name, s_string) >>)
            @@ (s_Wide :> << Field(s_data, s_uint8_256) >>),
        s_Wide,
        Domain(s_d, NoChainId),
        (s_data :> VArr([i \in 1..256 |-> VNum(7)])))

s_Node == << "N", "o", "d", "e" >>
s_next == << "n", "e", "x", "t" >>

\* A struct that refers to itself; the innermost value has no next.
DocNode ==
    TypedData(
        (s_EIP712Domain :> << Field(s_name, s_string) >>)
            @@ (s_Node :> << Field(s_name, s_string), Field(s_next, s_Node) >>),
        s_Node,
        Domain(s_d, NoChainId),
        (s_name :> VStr(s_x)) @@ (s_next :> VMap((s_name :> VStr(s_y)))))

Docs ==
    << DocMail, DocOrder, DocNoDomain, DocNoPrimary, DocBad, DocWorse, DocNest, DocBlob,
       DocOdd, DocPair, DocLeaves, DocWide, DocNode >>

\* ------------------------------------------------------- Ledger: framing

ledgerOpSignPersonalMessage == 8
ledgerOpSignTypedMessage == 12
ledgerOpEip712SendStructDef == 26
ledgerOpEip712SendStructImpl == 28
ledgerP1InitTransactionData == 0
ledgerP1CompleteSend == 0
ledgerP2StructName == 0
ledgerP2RootStruct == 0
ledgerP2Array == 15
ledgerP2StructField == 255
ledgerP2FullImplementation == 1

\* crypto.SignatureLength
SignatureLength == 65

\* One step of a call: an exchange with the device (x = "exch": the APDU's
\* INS, P1, P2 and data), or the error (x = "err") or panic (x = "panic")
\* that ends the call without one.
Exch(ins, p1, p2, data) == [x |-> "exch", ins |-> ins, p1 |-> p1, p2 |-> p2, data |-> data, e |-> "none"]

ErrItem(e) == [x |-> "err", ins |-> 0, p1 |-> 0, p2 |-> 0, data |-> << >>, e |-> e]

PanicItem == [x |-> "panic", ins |-> 0, p1 |-> 0, p2 |-> 0, data |-> << >>, e |-> "panic"]

RECURSIVE Flatten(_)
Flatten(seqs) ==
    IF Len(seqs) = 0 THEN << >>
    ELSE IF Len(seqs) = 1 THEN seqs[1]
    ELSE Flatten(SubSeq(seqs, 1, Len(seqs) \div 2))
         \o Flatten(SubSeq(seqs, Len(seqs) \div 2 + 1, Len(seqs)))

\* A function returns at its first error: the steps up to and including the
\* first one that is not an exchange.
UntilError(items) ==
    IF \E i \in 1..Len(items) : items[i].x # "exch"
    THEN SubSeq(items, 1, CHOOSE i \in 1..Len(items) :
                              items[i].x # "exch" /\ \A j \in 1..(i - 1) : items[j].x = "exch")
    ELSE items

\* The array-dimension block of a struct field: the count, then per level 0
\* (dynamic) or 1 and the length byte.
arrayLevelBytes(arrays) ==
    IF Len(arrays) = 0 THEN << >>
    ELSE << Len(arrays) % 256 >>
         \o Flatten([i \in 1..Len(arrays) |->
                        IF arrays[i].fixed THEN << 1, arrays[i].len % 256 >> ELSE << 0 >>])

\* Variant of typeDescByte: the array bit is never set.
typeDescByteNoArrayBit(dt, arrays) ==
    dt + (IF dt \in {IntType, UintType, FixedBytesType} THEN 64 ELSE 0)

\* The type-descriptor byte: the kind, 0x40 with a width byte, 0x80 for an array.
typeDescByte(dt, arrays) ==
    dt + (IF dt \in {IntType, UintType, FixedBytesType} THEN 64 ELSE 0)
       + (IF Len(arrays) > 0 THEN 128 ELSE 0)

\* sendField after parseType: the payload of the struct-field definition.
sendFieldPayload(r, fieldName) ==
    << typeDescByte(r.dt, r.arrays) >>
        \o (IF r.dt = CustomType THEN << Len(r.name) % 256 >> \o StrBytes(r.name) ELSE << >>)
        \o (IF r.dt \in {IntType, UintType, FixedBytesType}
            THEN << r.byteLength % 256 >> ELSE << >>)
        \o arrayLevelBytes(r.arrays)
        \o << Len(fieldName) % 256 >> \o StrBytes(fieldName)

sendFieldParsed(r, fieldName) ==
    IF r.err = "panic" THEN PanicItem
    ELSE IF r.err # "none" THEN ErrItem(r.err)
    ELSE Exch(ledgerOpEip712SendStructDef, 0, ledgerP2StructField,
              sendFieldPayload(r, fieldName))

\* sendField: the struct-field definition of one field.
sendField(types, field) == sendFieldParsed(parseType(types, field.Type), field.Name)

\* hex.DecodeString as the leaf branch uses it.
ledgerHexLeaf(h) ==
    IF h.err THEN [err |-> "HexDecode", enc |-> << >>] ELSE [err |-> "none", enc |-> h.bytes]

\* The leaf branch of sendValue: the bytes of a primitive value, chosen by
\* the value's Go type (and by the type string only for strings).
ledgerEncodeLeaf(t, value) ==
    CASE value.k = "str" ->
            IF t = s_string THEN [err |-> "none", enc |-> StrBytes(value.v)]
            ELSE IF HasPrefix(value.v, << "0", "x" >>)
                 THEN ledgerHexLeaf(HexDecodeString(SubSeq(value.v, 3, Len(value.v))))
                 ELSE [err |-> "InvalidString", enc |-> << >>]
      [] value.k = "bool" -> [err |-> "none", enc |-> IF value.v THEN << 1 >> ELSE << 0 >>]
      [] value.k = "num" -> [err |-> "none", enc |-> NatBytes(Abs(value.v))]
      [] value.k = "hexdec" ->
            IF value.v = NoChainId THEN [err |-> "NilValue", enc |-> << >>]
            ELSE [err |-> "none", enc |-> NatBytes(Abs(value.v))]
      [] OTHER -> [err |-> "UnsupportedType", enc |-> << >>]

\* Variant of leafPayload: the length in one byte.
leafPayloadShort(enc) == << Len(enc) % 256 >> \o enc

\* The struct-field-value message of a leaf: a 2-byte length, then the bytes.
leafPayload(enc) == Uint16BE(Len(enc)) \o enc

\* The exchange of a leaf, or the error of its encoding.
sendLeaf(leaf) ==
    IF leaf.err # "none" THEN << ErrItem(leaf.err) >>
    ELSE << Exch(ledgerOpEip712SendStructImpl, ledgerP1CompleteSend, ledgerP2StructField,
                 leafPayload(leaf.enc)) >>

\* Variant of sendValue: a field without value is sent as an empty leaf.
RECURSIVE sendValueNilAsLeaf(_, _, _)
sendValueNilAsLeaf(types, t, value) ==
    IF value.k = "nil"
    THEN << Exch(ledgerOpEip712SendStructImpl, ledgerP1CompleteSend, ledgerP2StructField,
                 << 0, 0 >>) >>
    ELSE IF HasSuffix(t, << "]" >>)
    THEN IF value.k # "arr" THEN << ErrItem("ExpectedArray") >>
         ELSE << Exch(ledgerOpEip712SendStructImpl, ledgerP1CompleteSend, ledgerP2Array,
                      << Len(value.v) % 256 >>) >>
              \o (IF LastIndexOf(t, "[") < 0 THEN << PanicItem >>
                  ELSE Flatten([i \in 1..Len(value.v) |->
                                   sendValueNilAsLeaf(types, SubSeq(t, 1, LastIndexOf(t, "[")),
                                                      value.v[i])]))
    ELSE IF HasType(types, t)
    THEN IF value.k # "map" THEN << ErrItem("ExpectedStruct") >>
         ELSE Flatten([i \in 1..Len(types[t]) |->
                          sendValueNilAsLeaf(types, types[t][i].Type,
                                             MapGet(value.v, types[t][i].Name))])
    ELSE sendLeaf(ledgerEncodeLeaf(t, value))

\* sendValue: the steps that send the value of one field, recursively.
RECURSIVE sendValue(_, _, _)
sendValue(types, t, value) ==
    IF value.k = "nil" THEN << ErrItem("NilValue") >>
    ELSE IF HasSuffix(t, << "]" >>)
    THEN IF value.k # "arr" THEN << ErrItem("ExpectedArray") >>
         ELSE << Exch(ledgerOpEip712SendStructImpl, ledgerP1CompleteSend, ledgerP2Array,
                      << Len(value.v) % 256 >>) >>
              \o (IF LastIndexOf(t, "[") < 0 THEN << PanicItem >>
                  ELSE Flatten([i \in 1..Len(value.v) |->
                                   sendValue(types, SubSeq(t, 1, LastIndexOf(t, "[")),
                                             value.v[i])]))
    ELSE IF HasType(types, t)
    THEN IF value.k # "map" THEN << ErrItem("ExpectedStruct") >>
         ELSE Flatten([i \in 1..Len(types[t]) |->
                          sendValue(types, types[t][i].Type, MapGet(value.v, types[t][i].Name))])
    ELSE sendLeaf(ledgerEncodeLeaf(t, value))

\* The flattened derivation path: its length, then each component big-endian.
pathBytes(derivationPath) ==
    << Len(derivationPath) % 256 >>
        \o Flatten([i \in 1..Len(derivationPath) |-> Uint32BE(derivationPath[i])])

\* The struct definitions, in the order the map iteration visits the structs.
sendStructDefs(types, order) ==
    Flatten([i \in 1..Len(order) |->
                << Exch(ledgerOpEip712SendStructDef, 0, ledgerP2StructName, StrBytes(order[i])) >>
                \o [j \in 1..Len(types[order[i]]) |-> sendField(types, types[order[i]][j])]])

\* Variant of ledgerTypedDataSteps: the domain values are sent before the
\* struct definitions.
ledgerTypedDataStepsValuesFirst(derivationPath, data, order) ==
    UntilError(
        << Exch(ledgerOpEip712SendStructImpl, ledgerP1CompleteSend, ledgerP2RootStruct,
                StrBytes(s_EIP712Domain)) >>
        \o sendValue(data.Types, s_EIP712Domain, VMap(DomainMap(data.Domain)))
        \o sendStructDefs(data.Types, order)
        \o << Exch(ledgerOpEip712SendStructImpl, ledgerP1CompleteSend, ledgerP2RootStruct,
                   StrBytes(data.PrimaryType)) >>
        \o sendValue(data.Types, data.PrimaryType, VMap(data.Message))
        \o << Exch(ledgerOpSignTypedMessage, 0, ledgerP2FullImplementation,
                   pathBytes(derivationPath)) >>)

\* ledgerSignTypedData after its two schema checks: every step of the call
\* when each exchange succeeds and the call runs to its first error.
ledgerTypedDataSteps(derivationPath, data, order) ==
    UntilError(
        sendStructDefs(data.Types, order)
        \o << Exch(ledgerOpEip712SendStructImpl, ledgerP1CompleteSend, ledgerP2RootStruct,
                   StrBytes(s_EIP712Domain)) >>
        \o sendValue(data.Types, s_EIP712Domain, VMap(DomainMap(data.Domain)))
        \o << Exch(ledgerOpEip712SendStructImpl, ledgerP1CompleteSend, ledgerP2RootStruct,
                   StrBytes(data.PrimaryType)) >>
        \o sendValue(data.Types, data.PrimaryType, VMap(data.Message))
        \o << Exch(ledgerOpSignTypedMessage, 0, ledgerP2FullImplementation,
                   pathBytes(derivationPath)) >>)

\* Variant of ledgerPersonalMessageSteps: the message follows the path
\* without its length.
ledgerPersonalMessageStepsNoLength(derivationPath, text) ==
    << Exch(ledgerOpSignPersonalMessage, ledgerP1InitTransactionData, 0,
            pathBytes(derivationPath) \o text) >>

\* ledgerSignPersonalMessage: its one exchange.
ledgerPersonalMessageSteps(derivationPath, text) ==
    << Exch(ledgerOpSignPersonalMessage, ledgerP1InitTransactionData, 0,
            pathBytes(derivationPath) \o Uint32BE(Len(text)) \o text) >>

\* Variant of rotateSignature: the reply as received.
rotateSignatureNot(reply) == reply

\* append(reply[1:], reply[0])
rotateSignature(reply) == Append(Tail(reply), Head(reply))

\* ------------------------------------------------- Trezor: the answers

\* No request, no reply.
NoMessage == [kind |-> "none"]

\* No Size on a field type (the nil pointer).
NoSize == 0 - 1

FieldType(dataType, size, structName, entry) ==
    [DataType |-> dataType, Size |-> size, StructName |-> structName, EntryType |-> entry]

\* The field type of the base of a parsed type: the switch on dt.
trezorBaseType(types, r) ==
    CASE r.dt = CustomType -> FieldType("STRUCT", Len(TypeFields(types, r.name)), r.name, << >>)
      [] r.dt = IntType -> FieldType("INT", r.byteLength, << >>, << >>)
      [] r.dt = UintType -> FieldType("UINT", r.byteLength, << >>, << >>)
      [] r.dt = AddressType -> FieldType("ADDRESS", NoSize, << >>, << >>)
      [] r.dt = BoolType -> FieldType("BOOL", NoSize, << >>, << >>)
      [] r.dt = StringType -> FieldType("STRING", NoSize, << >>, << >>)
      [] r.dt = FixedBytesType -> FieldType("BYTES", r.byteLength, << >>, << >>)
      [] r.dt = BytesType -> FieldType("BYTES", NoSize, << >>, << >>)

\* Variant of trezorWrapArrays: the loop runs from the first level up to
\* the last, so the outermost ARRAY tag is that of the first level.
RECURSIVE trezorWrapArraysFirstOut(_, _, _)
trezorWrapArraysFirstOut(base, arrays, n) ==
    IF n = 0 THEN base
    ELSE FieldType("ARRAY",
                   IF arrays[Len(arrays) - n + 1].fixed THEN arrays[Len(arrays) - n + 1].len
                   ELSE NoSize,
                   << >>, << trezorWrapArraysFirstOut(base, arrays, n - 1) >>)

\* The loop over arrays from the last level down to the first: the ARRAY
\* tag built at level n holds the tags of the levels below it.
RECURSIVE trezorWrapArrays(_, _, _)
trezorWrapArrays(base, arrays, n) ==
    IF n = 0 THEN base
    ELSE FieldType("ARRAY", IF arrays[n].fixed THEN arrays[n].len ELSE NoSize, << >>,
                   << trezorWrapArrays(base, arrays, n - 1) >>)

\* The member of a struct answer for one parsed field.
trezorMember(types, fieldName, r) ==
    [Name |-> fieldName,
     Type |-> trezorWrapArrays(trezorBaseType(types, r), r.arrays, Len(r.arrays))]

\* The loop over the fields of case 1 with every field parsed: the first
\* parse error ends the call.
trezorStructMembers(types, fields, parsed) ==
    LET bad == { i \in 1..Len(fields) : parsed[i].err # "none" }
    IN  IF bad # {}
        THEN [err |-> parsed[CHOOSE i \in bad : \A j \in bad : i <= j].err, ack |-> NoMessage]
        ELSE [err |-> "none",
              ack |-> [kind |-> "StructAck",
                       members |-> [i \in 1..Len(fields) |->
                                       trezorMember(types, fields[i].Name, parsed[i])]]]

\* Variant of trezorStructAck: a struct without fields is answered with no
\* members.
trezorStructAckEmpty(types, name) ==
    trezorStructMembers(types, TypeFields(types, name),
                        [i \in 1..Len(TypeFields(types, name)) |->
                            parseType(types, TypeFields(types, name)[i].Type)])

\* case 1: the answer to a struct request, or the error that ends the call.
trezorStructAck(types, name) ==
    IF Len(TypeFields(types, name)) = 0 THEN [err |-> "SchemaError", ack |-> NoMessage]
    ELSE trezorStructMembers(types, TypeFields(types, name),
                             [i \in 1..Len(TypeFields(types, name)) |->
                                 parseType(types, TypeFields(types, name)[i].Type)])

\* reflect: the value is an array or a slice; its element p.
IsArrayKind(value) == value.k \in {"arr", "bytes"}

ElemAt(value, p) ==
    IF value.k = "arr" THEN value.v[p + 1] ELSE [k |-> "u8", v |-> value.v[p + 1]]

\* Left-pads with zero bytes to the width.
RECURSIVE PadLeft(_, _)
PadLeft(bytes, width) == IF Len(bytes) >= width THEN bytes ELSE PadLeft(<< 0 >> \o bytes, width)

\* The bytes of a numeric, address or fixed-bytes leaf: too long is an
\* error, else the left-padding to the declared width.
trezorPadLeaf(raw, byteLength) ==
    IF Len(raw) > byteLength THEN [err |-> "TooLong", value |-> << >>]
    ELSE [err |-> "none", value |-> PadLeft(raw, byteLength)]

\* The last value of a path, encoded as a primitive: the switch on dt.
trezorEncodeLeaf(r, nextValue) ==
    CASE r.dt = CustomType -> [err |-> "CustomType", value |-> << >>]
      [] r.dt \in {IntType, UintType, AddressType, FixedBytesType} ->
            trezorPadLeaf(IF nextValue.k = "str" THEN FromHex(nextValue.v)
                          ELSE IF nextValue.k = "num" THEN NatBytes(Abs(nextValue.v))
                          ELSE << >>,
                          r.byteLength)
      [] r.dt = BoolType ->
            IF nextValue.k = "bool"
            THEN [err |-> "none", value |-> IF nextValue.v THEN << 1 >> ELSE << 0 >>]
            ELSE [err |-> "ExpectedBool", value |-> << >>]
      [] r.dt = StringType ->
            IF nextValue.k = "str" THEN [err |-> "none", value |-> StrBytes(nextValue.v)]
            ELSE [err |-> "ExpectedString", value |-> << >>]
      [] r.dt = BytesType ->
            IF nextValue.k = "str" THEN [err |-> "none", value |-> FromHex(nextValue.v)]
            ELSE [err |-> "ExpectedBytes", value |-> << >>]

\* The inner loop of case 2: from path index i (0-based) and array level j,
\* one level down per step while levels and path remain.
RECURSIVE descendArrays(_, _, _, _, _)
descendArrays(path, nLevels, i, j, nextValue) ==
    IF ~(j < nLevels /\ i < Len(path) - 1) THEN [err |-> "none", i |-> i, v |-> nextValue]
    ELSE IF nextValue.k = "nil" THEN [err |-> "panic", i |-> i, v |-> nextValue]
    ELSE IF ~IsArrayKind(nextValue) THEN [err |-> "ExpectedArray", i |-> i, v |-> nextValue]
    ELSE IF path[i + 2] >= Len(nextValue.v)
         THEN [err |-> "InvalidArrayIndex", i |-> i, v |-> nextValue]
    ELSE descendArrays(path, nLevels, i + 1, j + 1, ElemAt(nextValue, path[i + 2]))

WalkResult(err, value, nested) == [err |-> err, value |-> value, nested |-> nested]

\* Types[name] as the loop holds it: nil for an undeclared struct.
StructTypeOf(types, name) == [nil |-> ~HasType(types, name), fields |-> TypeFields(types, name)]

WalkLeaf(leaf, nested) == WalkResult(leaf.err, leaf.value, nested)

\* Variant of trezorArrayLength: the length in one byte.
trezorArrayLengthByte(value) == << Len(value.v) % 256 >>

\* Array value: the length as uint16, big-endian.
trezorArrayLength(value) == Uint16BE(Len(value.v))

RECURSIVE walkPath(_, _, _, _, _, _)

\* One turn of the outer loop after its inner loop (d: where the inner loop
\* stopped): the next struct, or at the end of the path the answer.
walkDescended(types, path, r, d, nested) ==
    IF d.err # "none" THEN WalkResult(d.err, << >>, nested)
    ELSE IF d.v.k = "nil" THEN WalkResult("panic", << >>, nested)
    ELSE IF d.i < Len(path) - 1
         THEN IF d.v.k # "map" THEN WalkResult("ExpectedMap", << >>, nested)
              ELSE walkPath(types, path, d.i + 1, StructTypeOf(types, r.name), d.v.v, nested)
    ELSE IF IsArrayKind(d.v) THEN WalkResult("none", trezorArrayLength(d.v), nested)
    ELSE WalkLeaf(trezorEncodeLeaf(r, d.v), nested)

\* One turn of the outer loop from the parsed type of the selected field.
walkParsed(types, path, i, r, nextValue, nested) ==
    IF r.err # "none" THEN WalkResult(r.err, << >>, nested)
    ELSE walkDescended(types, path, r, descendArrays(path, Len(r.arrays), i, 0, nextValue),
                       nested \/ Len(r.arrays) > 1)

walkField(types, path, i, field, structValue, nested) ==
    walkParsed(types, path, i, parseType(types, field.Type),
               MapGet(structValue, field.Name), nested)

\* The outer loop of case 2 from path index i (0-based): the value of the
\* answer and the nestedArray flag, or the error or panic that ends the call.
walkPath(types, path, i, structType, structValue, nested) ==
    IF i >= Len(path) THEN WalkResult("none", << >>, nested)
    ELSE IF structType.nil THEN WalkResult("NoStructType", << >>, nested)
    ELSE IF path[i + 1] >= Len(structType.fields)
         THEN WalkResult("InvalidFieldIndex", << >>, nested)
    ELSE walkField(types, path, i, structType.fields[path[i + 1] + 1], structValue, nested)

\* case 2: the answer to a value request with this member path.
trezorValueAck(data, path) ==
    IF Len(path) = 0 THEN WalkResult("panic", << >>, FALSE)
    ELSE IF path[1] = 0
         THEN walkPath(data.Types, path, 1, StructTypeOf(data.Types, s_EIP712Domain),
                       DomainMap(data.Domain), FALSE)
         ELSE walkPath(data.Types, path, 1, StructTypeOf(data.Types, data.PrimaryType),
                       data.Message, FALSE)

\* hexutil.Decode succeeds: a 0x prefix, then an even number of hex digits.
HexutilOk(s) ==
    /\ HasPrefix(s, << "0", "x" >>)
    /\ Len(s) % 2 = 0
    /\ \A i \in 3..Len(s) : HexVal(s[i]) >= 0

\* The number an integer value stands for (parseInteger), -1 when the value
\* is not one it accepts.
IntegerOf(value) ==
    CASE value.k = "num" -> value.v
      [] value.k = "hexdec" -> value.v
      [] value.k = "str" /\ Len(value.v) > 0 /\ \A i \in 1..Len(value.v) : IsDigit(value.v[i]) ->
            Atoi(value.v)
      [] value.k = "str" /\ Len(value.v) > 2 /\ HexutilOk(<< "0", "x", "0" >> \o Tail(Tail(value.v)))
                         /\ HasPrefix(value.v, << "0", "x" >>) ->
            BytesNat(FromHex(value.v))
      [] OTHER -> 0 - 1

\* An integer of at most this many bits.
FitsBits(n, bits) == n >= 0 /\ (bits >= 31 \/ n < 2 ^ bits)

\* EncodePrimitiveValue accepts the value for the primitive type.
EncodePrimitiveValueOk(encType, encValue) ==
    CASE encType = s_address ->
            \/ encValue.k = "str" /\ Len(FromHex(encValue.v)) = 20 /\ Len(encValue.v) \in {40, 42}
            \/ encValue.k = "bytes" /\ Len(encValue.v) = 20
      [] encType = s_bool -> encValue.k = "bool"
      [] encType = s_string -> encValue.k = "str"
      [] encType = s_bytes ->
            \/ encValue.k = "bytes"
            \/ encValue.k = "str" /\ HexutilOk(encValue.v)
      [] encType # s_bytes /\ HasPrefix(encType, s_bytes) ->
            /\ Atoi(SubSeq(encType, 6, Len(encType))) \in 0..32
            /\ \/ encValue.k = "bytes"
                  /\ Len(encValue.v) = Atoi(SubSeq(encType, 6, Len(encType)))
               \/ encValue.k = "str" /\ HexutilOk(encValue.v)
                  /\ Len(FromHex(encValue.v)) = Atoi(SubSeq(encType, 6, Len(encType)))
      [] HasPrefix(encType, s_uint) ->
            FitsBits(IntegerOf(encValue),
                     IF encType = s_uint THEN 256 ELSE Atoi(SubSeq(encType, 5, Len(encType))))
      [] HasPrefix(encType, s_int) ->
            FitsBits(IntegerOf(encValue),
                     IF encType = s_int THEN 256 ELSE Atoi(SubSeq(encType, 4, Len(encType))))
      [] OTHER -> FALSE

RECURSIVE EncodeDataOk(_, _, _)

\* encodeArrayValue accepts the value: a slice whose items are slices (taken
\* as arrays again), structs of the base type or primitives of the base type.
RECURSIVE encodeArrayValueOk(_, _, _)
encodeArrayValueOk(types, parsedType, encValue) ==
    /\ IsArrayKind(encValue)
    /\ \A p \in 0..(Len(encValue.v) - 1) :
         IF IsArrayKind(ElemAt(encValue, p))
         THEN encodeArrayValueOk(types, parsedType, ElemAt(encValue, p))
         ELSE IF HasType(types, parsedType)
         THEN /\ ElemAt(encValue, p).k = "map"
              /\ EncodeDataOk(types, parsedType, ElemAt(encValue, p).v)
         ELSE EncodePrimitiveValueOk(parsedType, ElemAt(encValue, p))

\* EncodeData accepts the struct value: no more values than fields, and
\* every field's value of the declared shape.
EncodeDataOk(types, primaryType, data) ==
    /\ Cardinality(DOMAIN data) <= Len(TypeFields(types, primaryType))
    /\ \A i \in 1..Len(TypeFields(types, primaryType)) :
         IF HasSuffix(TypeFields(types, primaryType)[i].Type, << "]" >>)
         THEN encodeArrayValueOk(types,
                                 SubSeq(TypeFields(types, primaryType)[i].Type, 1,
                                        IndexOf(TypeFields(types, primaryType)[i].Type, "[")),
                                 MapGet(data, TypeFields(types, primaryType)[i].Name))
         ELSE IF HasType(types, TypeFields(types, primaryType)[i].Type)
         THEN /\ MapGet(data, TypeFields(types, primaryType)[i].Name).k = "map"
              /\ EncodeDataOk(types, TypeFields(types, primaryType)[i].Type,
                              MapGet(data, TypeFields(types, primaryType)[i].Name).v)
         ELSE EncodePrimitiveValueOk(TypeFields(types, primaryType)[i].Type,
                                     MapGet(data, TypeFields(types, primaryType)[i].Name))

\* The decimal digits of a number.
RECURSIVE Itoa(_)
Itoa(n) ==
    IF n < 10 THEN << AsciiDigits[n + 1] >>
    ELSE Append(Itoa(n \div 10), AsciiDigits[(n % 10) + 1])

\* The type with its array suffixes cut off.
TypeBase(t) == IF IndexOf(t, "[") >= 0 THEN SubSeq(t, 1, IndexOf(t, "[")) ELSE t

\* isPrimitiveTypeValid: the base is one of the primitive type names the
\* library lists (bytes1..bytes32, int8..int256 and uint8..uint256 in steps
\* of 8 bits).
IsPrimitiveTypeValid(t) ==
    \/ TypeBase(t) \in {s_address, s_bool, s_string, s_bytes, s_int, s_uint}
    \/ \E n \in 1..32 :
          TypeBase(t) \in {s_bytes \o Itoa(n), s_int \o Itoa(8 * n), s_uint \o Itoa(8 * n)}

\* Types.validate: every field has a name and a type that is a valid
\* primitive or a declared struct other than its own.
TypesValidateOk(types) ==
    \A k \in DOMAIN types : \A i \in 1..Len(types[k]) :
        /\ Len(types[k][i].Type) > 0
        /\ Len(types[k][i].Name) > 0
        /\ types[k][i].Type # k
        /\ IsPrimitiveTypeValid(types[k][i].Type) \/ HasType(types, TypeBase(types[k][i].Type))

\* apitypes.TypedDataAndHash returns no error: the types are valid and the
\* hash of the domain and of the message can be computed, which takes values
\* of the declared shapes.
TypedDataAndHashOk(data) ==
    /\ TypesValidateOk(data.Types)
    /\ EncodeDataOk(data.Types, s_EIP712Domain, DomainMap(data.Domain))
    /\ EncodeDataOk(data.Types, data.PrimaryType, data.Message)

\* apitypes.TypedDataAndHash: the 66 bytes 0x19 0x01, domain separator,
\* message hash.  The two Keccak hashes are opaque: 32 bytes that differ
\* from document to document and from each other.
HashOf(doc, which) == [i \in 1..32 |-> (32 * doc + 2 * i + which) % 256]

TypedDataAndHash(doc) == << 25, 1 >> \o HashOf(doc, 1) \o HashOf(doc, 2)

\* hashes[2:34] and hashes[34:66]
domainHashOf(hashes) == SubSeq(hashes, 3, 34)

messageHashOf(hashes) == SubSeq(hashes, 35, 66)

\* Variant of trezorSignRequest: the domain hash is shown.
trezorSignRequestDomainHash(path, data, hashes) ==
    [kind |-> "EthereumSignTypedData", AddressN |-> path, PrimaryType |-> data.PrimaryType,
     ShowMessageHash |-> domainHashOf(hashes)]

\* The first request of the interactive protocol.
trezorSignRequest(path, data, hashes) ==
    [kind |-> "EthereumSignTypedData", AddressN |-> path, PrimaryType |-> data.PrimaryType,
     ShowMessageHash |-> messageHashOf(hashes)]

\* ------------------------------------------------------------ the state

VARIABLES
    pc,           \* "idle", "ledger" or "trezor" (a call is running), "done"
    device,       \* the driver's view of the device: offline, version
    call,         \* the running call: driver, op, doc, path, text, order
    steps,        \* Ledger: every step of the running call
    nExch,        \* exchanges made with the device in this call
    exchFailed,   \* an exchange of this call returned an error
    log,          \* Ledger: the APDUs sent in this call, in order
    lastReply,    \* the bytes of the last signature reply of the device
    result,       \* what the call returned: status, err, sig
    document,     \* the caller's typed data as it stands in memory
    req,          \* Trezor: the request the next exchange sends
    nestedArray,  \* Trezor: the walker's nestedArray flag
    lastResp      \* Trezor: the reply of the last exchange

vars == << pc, device, call, steps, nExch, exchFailed, log, lastReply, result, document,
           req, nestedArray, lastResp >>

\* The wallet's driver and its view of the device: offline() of the Ledger
\* driver, device == nil of the Trezor driver, the firmware version.
Devices ==
    { [driver |-> "ledger", offline |-> TRUE, version |-> << 1, 5, 0 >>],
      [driver |-> "ledger", offline |-> FALSE, version |-> << 0, 4, 0 >>],
      [driver |-> "ledger", offline |-> FALSE, version |-> << 1, 4, 0 >>],
      [driver |-> "ledger", offline |-> FALSE, version |-> << 2, 0, 0 >>],
      [driver |-> "trezor", offline |-> TRUE, version |-> << 2, 0, 0 >>],
      [driver |-> "trezor", offline |-> FALSE, version |-> << 1, 9, 0 >>],
      [driver |-> "trezor", offline |-> FALSE, version |-> << 2, 0, 0 >>] }

DerivationPaths == { << >>, << 44, 60 >> }

Texts == { << >>, << 104, 105 >> }

\* A reply of n bytes, all different within a signature's length.
ReplyBytes(n, seed) == [i \in 1..n |-> (seed + 3 * i) % 256]

Replies ==
    { ReplyBytes(0, 0), ReplyBytes(64, 1), ReplyBytes(65, 1), ReplyBytes(65, 27),
      ReplyBytes(66, 1) }

\* The orders in which a range over the Types map may visit its keys.
MapOrders(types) ==
    { o \in [1..Cardinality(DOMAIN types) -> DOMAIN types] :
        \A i, j \in 1..Cardinality(DOMAIN types) : i # j => o[i] # o[j] }

NoCall == [driver |-> "none", op |-> "none", doc |-> 1, path |-> << >>, text |-> << >>,
           order |-> << >>]

NoResult == [status |-> "none", err |-> "none", sig |-> << >>]

Failed(e) == [status |-> "err", err |-> e, sig |-> << >>]

Panicked == [status |-> "panic", err |-> "panic", sig |-> << >>]

Returned(sig) == [status |-> "ok", err |-> "none", sig |-> sig]

Data == document

\* Variant of ledgerDocumentAfter: the type of a field is written back
\* without its array suffix.
ledgerDocumentAfterTrim(doc) ==
    [doc EXCEPT !.Types = [k \in DOMAIN doc.Types |->
        [i \in 1..Len(doc.Types[k]) |->
            [doc.Types[k][i] EXCEPT !.Type = TypeBase(doc.Types[k][i].Type)]]]]

\* The document after a step of the Ledger driver: sendField and sendValue
\* work on locals (t, name, enc, payload) and assign nothing to data.
ledgerDocumentAfter(doc) == doc

\* Variant of trezorDocumentAfter: the message is replaced by the struct
\* value the walk last stood on.
trezorDocumentAfterWalk(doc) == [doc EXCEPT !.Message = DomainMap(doc.Domain)]

\* The document after one turn of the Trezor loop: structType, structValue
\* and nextValue are locals, and nothing is assigned to data.
trezorDocumentAfter(doc) == doc

Init ==
    /\ pc = "idle"
    /\ device \in Devices
    /\ call = NoCall
    /\ steps = << >>
    /\ nExch = 0
    /\ exchFailed = FALSE
    /\ log = << >>
    /\ lastReply = << >>
    /\ result = NoResult
    /\ req = NoMessage
    /\ nestedArray = FALSE
    /\ lastResp = NoMessage
    /\ document = Docs[call.doc]

\* ------------------------------------------------------ Ledger: the calls

\* The version gate of SignText and SignedTypedData.
ledgerVersionTooOld(version) == version[1] < 1 /\ version[2] < 5

\* Variant of ledgerTypedDataPrecheck: the primary type is not looked up.
ledgerTypedDataPrecheckNoPrimary(dev, data) ==
    IF dev.offline THEN "ErrWalletClosed"
    ELSE IF ledgerVersionTooOld(dev.version) THEN "UnsupportedFirmware"
    ELSE IF ~HasType(data.Types, s_EIP712Domain) THEN "SchemaError"
    ELSE "none"

\* SignedTypedData and the head of ledgerSignTypedData: the error that ends
\* the call before any exchange, or "none".
ledgerTypedDataPrecheck(dev, data) ==
    IF dev.offline THEN "ErrWalletClosed"
    ELSE IF ledgerVersionTooOld(dev.version) THEN "UnsupportedFirmware"
    ELSE IF ~HasType(data.Types, s_EIP712Domain) THEN "SchemaError"
    ELSE IF ~HasType(data.Types, data.PrimaryType) THEN "SchemaError"
    ELSE "none"

\* SignText: the same gates without a document.
ledgerTextPrecheck(dev) ==
    IF dev.offline THEN "ErrWalletClosed"
    ELSE IF ledgerVersionTooOld(dev.version) THEN "UnsupportedFirmware"
    ELSE "none"

\* Variant of ledgerAfterExchange: a failed exchange that is not the signing
\* command is passed over.
ledgerAfterExchangeResume(isSign, ok, reply) ==
    IF ~ok /\ isSign THEN [pc |-> "done", result |-> Failed("TransportError")]
    ELSE IF ~isSign THEN [pc |-> "ledger", result |-> NoResult]
    ELSE IF Len(reply) # SignatureLength THEN [pc |-> "done", result |-> Failed("InvalidReply")]
    ELSE [pc |-> "done", result |-> Returned(rotateSignature(reply))]

\* What follows an exchange: the error return, the next step, or for the
\* signing command the length check and the rotated signature.
ledgerAfterExchange(isSign, ok, reply) ==
    IF ~ok THEN [pc |-> "done", result |-> Failed("TransportError")]
    ELSE IF ~isSign THEN [pc |-> "ledger", result |-> NoResult]
    ELSE IF Len(reply) # SignatureLength THEN [pc |-> "done", result |-> Failed("InvalidReply")]
    ELSE [pc |-> "done", result |-> Returned(rotateSignature(reply))]

LedgerSignedTypedData ==
    /\ pc = "idle"
    /\ device.driver = "ledger"
    /\ \E d \in 1..Len(Docs), p \in DerivationPaths :
         LET e == ledgerTypedDataPrecheck(device, Docs[d]) IN
         \E o \in (IF e = "none" THEN MapOrders(Docs[d].Types) ELSE { << >> }) :
            /\ call' = [driver |-> "ledger", op |-> "typed", doc |-> d, path |-> p,
                        text |-> << >>, order |-> o]
            /\ steps' = IF e = "none" THEN ledgerTypedDataSteps(p, Docs[d], o) ELSE << >>
            /\ pc' = IF e = "none" THEN "ledger" ELSE "done"
            /\ result' = IF e = "none" THEN NoResult ELSE Failed(e)
    /\ UNCHANGED << device, nExch, exchFailed, log, lastReply, req, nestedArray, lastResp >>
    /\ document' = Docs[call'.doc]

LedgerSignText ==
    /\ pc = "idle"
    /\ device.driver = "ledger"
    /\ \E p \in DerivationPaths, t \in Texts :
         LET e == ledgerTextPrecheck(device) IN
            /\ call' = [driver |-> "ledger", op |-> "text", doc |-> 1, path |-> p,
                        text |-> t, order |-> << >>]
            /\ steps' = IF e = "none" THEN ledgerPersonalMessageSteps(p, t) ELSE << >>
            /\ pc' = IF e = "none" THEN "ledger" ELSE "done"
            /\ result' = IF e = "none" THEN NoResult ELSE Failed(e)
    /\ UNCHANGED << device, nExch, exchFailed, log, lastReply, req, nestedArray, lastResp >>
    /\ document' = Docs[call'.doc]

\* ledgerExchange: one APDU sent, and the device's answer or a transport error.
LedgerExchange ==
    /\ pc = "ledger"
    /\ nExch < Len(steps)
    /\ steps[nExch + 1].x = "exch"
    /\ LET item == steps[nExch + 1]
           isSign == item.ins \in {ledgerOpSignTypedMessage, ledgerOpSignPersonalMessage}
       IN  \E ok \in BOOLEAN :
           \E reply \in (IF ok /\ isSign THEN Replies ELSE { << >> }) :
              LET after == ledgerAfterExchange(isSign, ok, reply) IN
              /\ log' = Append(log, item)
              /\ nExch' = nExch + 1
              /\ exchFailed' = ~ok
              /\ lastReply' = reply
              /\ pc' = after.pc
              /\ result' = after.result
    /\ UNCHANGED << device, call, steps, req, nestedArray, lastResp >>
    /\ document' = ledgerDocumentAfter(document)

\* An error found on the host between two exchanges (a parse error, a value
\* of the wrong shape) or a panic: the call ends there.
LedgerAbort ==
    /\ pc = "ledger"
    /\ nExch < Len(steps)
    /\ steps[nExch + 1].x # "exch"
    /\ pc' = "done"
    /\ result' = IF steps[nExch + 1].x = "panic" THEN Panicked
                 ELSE Failed(steps[nExch + 1].e)
    /\ UNCHANGED << device, call, steps, nExch, exchFailed, log, lastReply, req, nestedArray,
                    lastResp >>
    /\ document' = ledgerDocumentAfter(document)

\* The call has returned; the caller may make another one.
Return ==
    /\ pc = "done"
    /\ pc' = "idle"
    /\ call' = NoCall
    /\ steps' = << >>
    /\ nExch' = 0
    /\ exchFailed' = FALSE
    /\ log' = << >>
    /\ lastReply' = << >>
    /\ result' = NoResult
    /\ req' = NoMessage
    /\ nestedArray' = FALSE
    /\ lastResp' = NoMessage
    /\ document' = Docs[NoCall.doc]
    /\ UNCHANGED device

\* ------------------------------------------------------ Trezor: the calls

\* The member paths a value request may carry.
RECURSIVE SeqsUpTo(_, _)
SeqsUpTo(S, n) ==
    IF n = 0 THEN { << >> }
    ELSE LET shorter == SeqsUpTo(S, n - 1)
         IN  shorter \cup { Append(q, x) : q \in { r \in shorter : Len(r) = n - 1 }, x \in S }

MemberPaths == SeqsUpTo(0..MaxIndex, MaxPathLen)

s_Nope == << "N", "o", "p", "e" >>

\* The struct names a struct request may carry: the declared ones and one
\* that is not declared.
QueryNames(data) == DOMAIN data.Types \cup { s_Nope }

Reply(kind, code, sig, name, path) ==
    [kind |-> kind, code |-> code, sig |-> sig, name |-> name, path |-> path]

\* trezorExchange: what an exchange of the interactive protocol returns.  An
\* error (of the transport, or a Failure message of the device with its
\* code), or the reply decoded into one of the result messages: the
\* signature (n = 0), a struct request (1), a value request (2).  "other"
\* stands for an index beyond these.
TrezorReplies(data) ==
    { Reply("error", c, << >>, << >>, << >>) :
        c \in {"Transport", "Failure_FirmwareError", "Failure_ActionCancelled"} }
    \cup { Reply("signature", "none", sig, << >>, << >>) : sig \in Replies }
    \cup { Reply("struct", "none", << >>, name, << >>) : name \in QueryNames(data) }
    \cup { Reply("value", "none", << >>, << >>, path) : path \in MemberPaths }
    \cup { Reply("other", "none", << >>, << >>, << >>) }

\* Variant of trezorExchangeError: the code of the failure is not looked at.
trezorExchangeErrorAnyCode(nested, code) ==
    IF nested THEN "NestedArraysUnsupported"
    ELSE IF code = "Transport" THEN "TransportError"
    ELSE "TrezorFailure"

\* The error the loop returns when an exchange fails.
trezorExchangeError(nested, code) ==
    IF nested /\ code = "Failure_FirmwareError" THEN "NestedArraysUnsupported"
    ELSE IF code = "Transport" THEN "TransportError"
    ELSE "TrezorFailure"

\* Variant of trezorSignature: the signature rotated as the Ledger driver
\* rotates its reply.
trezorSignatureRotated(sig) == IF Len(sig) = 0 THEN sig ELSE rotateSignature(sig)

\* case 0: the signature returned to the caller.
trezorSignature(sig) == sig

\* Variant of trezorIsLegacy: no device is taken for a legacy one.
trezorIsLegacyNever(version) == FALSE

\* w.version[0] == 1: a legacy device, which cannot run the protocol.
trezorIsLegacy(version) == version[1] = 1

\* SignedTypedData up to its loop: the closed device, the hash of the
\* document (it may fail), the fallback of version 1 devices to SignTypedHash
\* (its outcome is not modelled further), else the first request.
TrezorSignedTypedData ==
    /\ pc = "idle"
    /\ device.driver = "trezor"
    /\ \E d \in 1..Len(Docs), p \in DerivationPaths, legacyOk \in BOOLEAN :
         LET hashes == TypedDataAndHash(d) IN
         /\ call' = [driver |-> "trezor", op |-> "typed", doc |-> d, path |-> p,
                     text |-> << >>, order |-> << >>]
         /\ IF device.offline
            THEN /\ pc' = "done"
                 /\ result' = Failed("ErrWalletClosed")
                 /\ UNCHANGED << req, lastReply >>
            ELSE IF ~TypedDataAndHashOk(Docs[d])
            THEN /\ pc' = "done"
                 /\ result' = Failed("HashError")
                 /\ UNCHANGED << req, lastReply >>
            ELSE IF trezorIsLegacy(device.version)
            THEN /\ pc' = "done"
                 /\ req' = [kind |-> "SignTypedHash", AddressN |-> p,
                            domainHash |-> domainHashOf(hashes),
                            messageHash |-> messageHashOf(hashes)]
                 /\ \E sig \in Replies :
                      /\ lastReply' = IF legacyOk THEN sig ELSE << >>
                      /\ result' = IF legacyOk THEN Returned(sig) ELSE Failed("TransportError")
            ELSE /\ pc' = "trezor"
                 /\ req' = trezorSignRequest(p, Docs[d], hashes)
                 /\ result' = NoResult
                 /\ UNCHANGED lastReply
    /\ nestedArray' = FALSE
    /\ UNCHANGED << device, steps, nExch, exchFailed, log, lastResp >>
    /\ document' = Docs[call'.doc]

\* Variant of trezorFlagAfterExchange: the flag outlives the exchange.
trezorFlagKept(nested) == nested

\* nestedArray = false after an exchange that returned no error.
trezorFlagAfterExchange(nested) == FALSE

\* One turn of the loop up to its switch: the request is sent; an error ends
\* the call, any reply clears the nestedArray flag.
TrezorExchange ==
    /\ pc = "trezor"
    /\ nExch < MaxRounds
    /\ \E resp \in TrezorReplies(Data) :
         /\ nExch' = nExch + 1
         /\ lastResp' = resp
         /\ req' = NoMessage
         /\ IF resp.kind = "error"
            THEN /\ pc' = "done"
                 /\ exchFailed' = TRUE
                 /\ result' = Failed(trezorExchangeError(nestedArray, resp.code))
                 /\ UNCHANGED nestedArray
            ELSE /\ pc' = "trezorGot"
                 /\ nestedArray' = trezorFlagAfterExchange(nestedArray)
                 /\ UNCHANGED << exchFailed, result >>
    /\ UNCHANGED << device, call, steps, log, lastReply >>
    /\ UNCHANGED document

\* case 0
TrezorSignature ==
    /\ pc = "trezorGot"
    /\ lastResp.kind = "signature"
    /\ pc' = "done"
    /\ lastReply' = lastResp.sig
    /\ result' = Returned(trezorSignature(lastResp.sig))
    /\ UNCHANGED << device, call, steps, nExch, exchFailed, log, req, nestedArray, lastResp >>
    /\ UNCHANGED document

\* case 1
TrezorStructRequest ==
    /\ pc = "trezorGot"
    /\ lastResp.kind = "struct"
    /\ LET a == trezorStructAck(Data.Types, lastResp.name) IN
         /\ pc' = IF a.err = "none" THEN "trezor" ELSE "done"
         /\ req' = a.ack
         /\ result' = IF a.err = "none" THEN NoResult
                      ELSE IF a.err = "panic" THEN Panicked ELSE Failed(a.err)
    /\ UNCHANGED << device, call, steps, nExch, exchFailed, log, lastReply, nestedArray,
                    lastResp >>
    /\ document' = trezorDocumentAfter(document)

\* case 2.  The request is not read again once it is answered: the model
\* drops its path then.
TrezorValueRequest ==
    /\ pc = "trezorGot"
    /\ lastResp.kind = "value"
    /\ LET w == trezorValueAck(Data, lastResp.path) IN
         IF w.err = "none"
         THEN /\ pc' = "trezor"
              /\ req' = [kind |-> "ValueAck", value |-> w.value]
              /\ nestedArray' = w.nested
              /\ lastResp' = [lastResp EXCEPT !.path = << >>]
              /\ UNCHANGED result
         ELSE /\ pc' = "done"
              /\ result' = IF w.err = "panic" THEN Panicked ELSE Failed(w.err)
              /\ nestedArray' = w.nested
              /\ UNCHANGED << req, lastResp >>
    /\ UNCHANGED << device, call, steps, nExch, exchFailed, log, lastReply >>
    /\ document' = trezorDocumentAfter(document)

\* default
TrezorUnexpected ==
    /\ pc = "trezorGot"
    /\ lastResp.kind = "other"
    /\ pc' = "done"
    /\ result' = Failed("UnexpectedReply")
    /\ UNCHANGED << device, call, steps, nExch, exchFailed, log, lastReply, req, nestedArray,
                    lastResp >>
    /\ UNCHANGED document

\* SignText of the Trezor driver: one exchange, the signature as received.
TrezorSignText ==
    /\ pc = "idle"
    /\ device.driver = "trezor"
    /\ \E p \in DerivationPaths, t \in Texts :
         /\ call' = [driver |-> "trezor", op |-> "text", doc |-> 1, path |-> p,
                     text |-> t, order |-> << >>]
         /\ IF device.offline
            THEN /\ pc' = "done"
                 /\ result' = Failed("ErrWalletClosed")
                 /\ UNCHANGED req
            ELSE /\ pc' = "trezorText"
                 /\ req' = [kind |-> "EthereumSignMessage", AddressN |-> p, Message |-> t]
                 /\ UNCHANGED result
    /\ UNCHANGED << device, steps, nExch, exchFailed, log, lastReply, nestedArray, lastResp >>
    /\ document' = Docs[call'.doc]

TrezorTextExchange ==
    /\ pc = "trezorText"
    /\ \E resp \in { r \in TrezorReplies(Data) : r.kind \in {"error", "signature"} } :
         /\ nExch' = nExch + 1
         /\ lastResp' = resp
         /\ req' = NoMessage
         /\ pc' = "done"
         /\ exchFailed' = (resp.kind = "error")
         /\ lastReply' = resp.sig
         /\ result' = IF resp.kind = "error"
                      THEN Failed(IF resp.code = "Transport" THEN "TransportError"
                                  ELSE "TrezorFailure")
                      ELSE Returned(trezorSignature(resp.sig))
    /\ UNCHANGED << device, call, steps, log, nestedArray >>
    /\ UNCHANGED document

Next ==
    \/ LedgerSignedTypedData
    \/ LedgerSignText
    \/ LedgerExchange
    \/ LedgerAbort
    \/ TrezorSignedTypedData
    \/ TrezorExchange
    \/ TrezorSignature
    \/ TrezorStructRequest
    \/ TrezorValueRequest
    \/ TrezorUnexpected
    \/ TrezorSignText
    \/ TrezorTextExchange
    \/ Return

Spec == Init /\ [][Next]_vars


\* ------------------------------------------------------------ properties

IsLedgerTyped == call.driver = "ledger" /\ call.op = "typed"

IsTrezorTyped == call.driver = "trezor" /\ call.op = "typed"

\* The kinds of the exchanges of ledgerSignTypedData.
IsStructDef(m) == m.ins = ledgerOpEip712SendStructDef

IsStructName(m) == IsStructDef(m) /\ m.p2 = ledgerP2StructName

IsRootMarker(m) == m.ins = ledgerOpEip712SendStructImpl /\ m.p2 = ledgerP2RootStruct

IsStructValue(m) ==
    m.ins = ledgerOpEip712SendStructImpl /\ m.p2 \in {ledgerP2Array, ledgerP2StructField}

IsSignTyped(m) == m.ins = ledgerOpSignTypedMessage

RootMarkers == { i \in 1..Len(log) : IsRootMarker(log[i]) }

\* C1: in every run of ledgerSignTypedData the exchanges made so far are, in
\* this order: struct definitions (one struct-name message per declared
\* struct before anything else follows), the root marker naming
\* EIP712Domain, domain values, the root marker naming PrimaryType, message
\* values, the sign-typed-data command.  No value precedes a definition; the
\* signing command comes at most once, last, after both markers, and no
\* exchange before it failed.
C1_Shape ==
    IsLedgerTyped =>
        /\ \A i \in 1..Len(log) :
             IsStructDef(log[i]) \/ IsRootMarker(log[i]) \/ IsStructValue(log[i])
                \/ IsSignTyped(log[i])
        /\ \A j \in 1..Len(log) :
             IsStructDef(log[j]) =>
                /\ \A i \in 1..(j - 1) : IsStructDef(log[i])
                /\ \A i \in 1..Len(log) : IsStructValue(log[i]) => j < i
        /\ \A i \in 1..Len(log) : IsSignTyped(log[i]) => i = Len(log) /\ i = nExch
        /\ Cardinality(RootMarkers) <= 2
        /\ \A i \in RootMarkers :
             /\ Cardinality({ j \in 1..(i - 1) : IsStructName(log[j]) })
                    = Cardinality(DOMAIN Data.Types)
             /\ log[i].data = IF \E j \in RootMarkers : j < i
                              THEN StrBytes(Data.PrimaryType)
                              ELSE StrBytes(s_EIP712Domain)
        /\ \A i \in 1..Len(log) :
             /\ IsStructValue(log[i]) => \E j \in 1..(i - 1) : IsRootMarker(log[j])
             /\ IsSignTyped(log[i]) => Cardinality(RootMarkers) = 2

C1_ExchangeOrder ==
    /\ []C1_Shape
    /\ [][(IsLedgerTyped /\ Len(log') > Len(log)) => ~exchFailed]_vars

\* A run of ledgerSignTypedData on the Order document that reached the
\* signing command and returned a signature.
C1_Witness ==
    /\ IsLedgerTyped /\ call.doc = 2
    /\ pc = "done" /\ result.status = "ok"
    /\ IsSignTyped(log[Len(log)])
    /\ \E i \in 1..Len(log) : log[i].p2 = ledgerP2Array

\* C2: ledgerDriver.SignedTypedData on a closed device returns
\* ErrWalletClosed, and on an open device that passes the version gate with a
\* document whose Types lacks EIP712Domain or the struct named by
\* PrimaryType returns the schema error; in both cases no exchange was made.
C2_NoExchangeOnPrecheck ==
    IsLedgerTyped =>
        /\ device.offline =>
             pc = "done" /\ result = Failed("ErrWalletClosed") /\ nExch = 0 /\ log = << >>
        /\ (/\ ~device.offline
            /\ ~ledgerVersionTooOld(device.version)
            /\ \/ s_EIP712Domain \notin DOMAIN Data.Types
               \/ Data.PrimaryType \notin DOMAIN Data.Types) =>
             pc = "done" /\ result = Failed("SchemaError") /\ nExch = 0 /\ log = << >>

\* The document without its primary type was refused on an open device.
C2_Witness ==
    /\ IsLedgerTyped /\ call.doc = 4 /\ ~device.offline
    /\ result = Failed("SchemaError") /\ nExch = 0

\* The signing command of a Ledger call was exchanged and the device replied.
LedgerSignReplied ==
    /\ call.driver = "ledger"
    /\ pc = "done"
    /\ Len(log) > 0
    /\ log[Len(log)].ins \in {ledgerOpSignTypedMessage, ledgerOpSignPersonalMessage}
    /\ ~exchFailed

\* C3: a Ledger call (typed data or personal message) returns a signature
\* only when the reply to its signing command has exactly 65 bytes, and any
\* other length ends it with an error and no signature.  The signature is
\* the reply rotated left by one byte: result[0..63] = reply[1..64],
\* result[64] = reply[0]; rotating it right by one gives the reply back.
C3_LedgerSignature ==
    call.driver = "ledger" =>
        /\ result.status = "ok" =>
             /\ LedgerSignReplied
             /\ Len(lastReply) = 65
             /\ Len(result.sig) = 65
             /\ \A i \in 1..64 : result.sig[i] = lastReply[i + 1]
             /\ result.sig[65] = lastReply[1]
             /\ << result.sig[65] >> \o SubSeq(result.sig, 1, 64) = lastReply
        /\ (LedgerSignReplied /\ Len(lastReply) # 65) =>
             result.status = "err" /\ result.sig = << >>
        /\ (LedgerSignReplied /\ Len(lastReply) = 65) => result.status = "ok"

\* A typed-data call returned the rotated signature.
C3_Witness ==
    /\ IsLedgerTyped
    /\ LedgerSignReplied
    /\ result.status = "ok"
    /\ result.sig[65] = lastReply[1]
    /\ result.sig # lastReply



\* The Trezor call got a signature response and has returned.
TrezorSignatureReceived ==
    /\ call.driver = "trezor"
    /\ pc = "done"
    /\ lastResp.kind = "signature"

C5_ExchangeErrorTerminal ==
    /\ [](exchFailed => (pc = "done" /\ result.status = "err" /\ nExch > 0))
    /\ [][exchFailed => (nExch' = nExch \/ (nExch' = 0 /\ pc' = "idle"))]_vars

\* A Trezor call failed at its third exchange.
C5_Witness ==
    /\ exchFailed
    /\ IsTrezorTyped
    /\ nExch = 3
    /\ result.status = "err"

\* C6: the first request SignedTypedData sends carries the path, the name
\* of the primary type and the 32-byte message hash; the request sent after
\* a struct request is a struct acknowledgement and after a value request a
\* value acknowledgement; a signature response ends the call with that
\* signature; a response of another kind ends it with an error; neither is
\* followed by an exchange.
C6_Loop ==
    /\ []((IsTrezorTyped /\ pc = "trezor") =>
            /\ nExch = 0 =>
                 /\ req.kind = "EthereumSignTypedData"
                 /\ req.AddressN = call.path
                 /\ req.PrimaryType = Data.PrimaryType
                 /\ Len(req.ShowMessageHash) = 32
                 /\ req.ShowMessageHash = SubSeq(TypedDataAndHash(call.doc), 35, 66)
            /\ nExch > 0 =>
                 /\ lastResp.kind \in {"struct", "value"}
                 /\ lastResp.kind = "struct" => req.kind = "StructAck"
                 /\ lastResp.kind = "value" => req.kind = "ValueAck")
    /\ [][(IsTrezorTyped /\ pc = "trezorGot") =>
            /\ nExch' = nExch
            /\ lastResp.kind = "signature" => (pc' = "done" /\ result'.status = "ok")
            /\ lastResp.kind = "other" => (pc' = "done" /\ result'.status = "err")
            /\ lastResp.kind \in {"struct", "value"} => pc' \in {"trezor", "done"}]_vars
    /\ [][(IsTrezorTyped /\ nExch' > nExch) => (pc = "trezor" /\ lastResp'.kind # "none")]_vars

\* The loop answered a struct request and then a value request.
C6_Witness ==
    /\ IsTrezorTyped
    /\ pc = "trezor"
    /\ nExch = 2
    /\ lastResp.kind = "value"
    /\ req.kind = "ValueAck"

\* C7: a struct request naming a struct that is not declared, or declared
\* without fields, ends the call with the schema error, and no exchange is
\* made after the request was received.
C7_UnknownStruct ==
    /\ [][(/\ IsTrezorTyped
           /\ pc = "trezorGot"
           /\ lastResp.kind = "struct"
           /\ \/ lastResp.name \notin DOMAIN Data.Types
              \/ Len(Data.Types[lastResp.name]) = 0) =>
            (pc' = "done" /\ result' = Failed("SchemaError") /\ nExch' = nExch)]_vars
    /\ [][(pc = "done" /\ result = Failed("SchemaError")) => nExch' <= nExch]_vars

\* A struct request named a struct that is not declared, and the call ended.
C7_Witness ==
    /\ IsTrezorTyped
    /\ pc = "done"
    /\ lastResp.kind = "struct"
    /\ lastResp.name = s_Nope
    /\ result = Failed("SchemaError")
    /\ nExch = 2



\* What a member path selects, read off the document alone.  From a typed
\* value (declared type t, value v) the indices from position i on select a
\* field by declared position in a struct and an element by index in an
\* array.  at: "leaf", "array" or "struct" where the path ends; "range": an
\* index beyond the fields or elements; "notArray", "notStruct": the value
\* does not have the declared shape; "past": the path goes on after a
\* primitive.
Selected(at, t, v) == [at |-> at, t |-> t, v |-> v]

RECURSIVE Select(_, _, _, _, _)
Select(types, t, v, path, i) ==
    IF i > Len(path)
    THEN Selected(IF HasSuffix(t, << "]" >>) THEN "array"
                  ELSE IF HasType(types, t) THEN "struct" ELSE "leaf", t, v)
    ELSE IF HasSuffix(t, << "]" >>)
    THEN IF ~IsArrayKind(v) THEN Selected("notArray", t, v)
         ELSE IF path[i] >= Len(v.v) THEN Selected("range", t, v)
         ELSE Select(types, SubSeq(t, 1, LastIndexOf(t, "[")), ElemAt(v, path[i]), path, i + 1)
    ELSE IF HasType(types, t)
    THEN IF v.k # "map" THEN Selected("notStruct", t, v)
         ELSE IF path[i] >= Len(types[t]) THEN Selected("range", t, v)
         ELSE Select(types, types[t][path[i] + 1].Type,
                     MapGet(v.v, types[t][path[i] + 1].Name), path, i + 1)
    ELSE Selected("past", t, v)

\* The root: index 0 is the domain with the EIP712Domain fields, any other
\* the message with the fields of the primary type.
SelectRoot(data, path) ==
    IF path[1] = 0
    THEN Select(data.Types, s_EIP712Domain, VMap(DomainMap(data.Domain)), path, 2)
    ELSE Select(data.Types, data.PrimaryType, VMap(data.Message), path, 2)

\* A value request with a root index is about to be handled.
ValueQueryReceived ==
    /\ IsTrezorTyped
    /\ pc = "trezorGot"
    /\ lastResp.kind = "value"
    /\ Len(lastResp.path) > 0

RECURSIVE StripZeros(_)
StripZeros(b) == IF Len(b) > 0 /\ Head(b) = 0 THEN StripZeros(Tail(b)) ELSE b

IsNumericType(t) == HasPrefix(t, s_int) \/ HasPrefix(t, s_uint)

\* The bytes of a primitive value of the document.
LeafBytes(t, v) ==
    CASE v.k = "str" /\ t = s_string -> StrBytes(v.v)
      [] v.k = "str" /\ t # s_string -> FromHex(v.v)
      [] v.k = "bool" -> IF v.v THEN << 1 >> ELSE << 0 >>
      [] v.k \in {"num", "hexdec"} -> NatBytes(Abs(v.v))
      [] v.k = "bytes" -> v.v
      [] OTHER -> << >>

\* The bytes are the leaf's bytes (for a number: up to leading zero bytes).
IsLeafBytes(bytes, t, v) ==
    IF IsNumericType(t) THEN StripZeros(bytes) = StripZeros(LeafBytes(t, v))
    ELSE bytes = LeafBytes(t, v)

\* The path ends at a declared primitive that holds a primitive value.
IsPrimitiveLeaf(sel) == sel.at = "leaf" /\ sel.v.k \in {"str", "bool", "num", "hexdec"}

\* C8 as claimed: a value request whose path ends at a primitive leaf is
\* answered with a value acknowledgement holding the leaf's bytes; one with
\* an index beyond the fields of the current struct or the elements of the
\* current array ends the call with an error and no acknowledgement.
C8_Claim ==
    [][ValueQueryReceived =>
          /\ IsPrimitiveLeaf(SelectRoot(Data, lastResp.path)) =>
               /\ pc' = "trezor"
               /\ req'.kind = "ValueAck"
               /\ IsLeafBytes(req'.value, SelectRoot(Data, lastResp.path).t,
                              SelectRoot(Data, lastResp.path).v)
          /\ SelectRoot(Data, lastResp.path).at = "range" =>
               /\ pc' = "done"
               /\ result'.status = "err"
               /\ req' = req
               /\ nExch' = nExch]_vars

\* The value does not fit the declared type where the path ends or goes on.
IsMismatch(sel) ==
    \/ sel.at \in {"notArray", "notStruct", "past"}
    \/ sel.at = "array" /\ ~IsArrayKind(sel.v)
    \/ sel.at = "struct" /\ sel.v.k # "map"
    \/ sel.at = "leaf" /\ (IsArrayKind(sel.v) \/ sel.v.k = "map")

\* C9 as claimed: a value request whose path meets a declared array that is
\* no array, a declared struct that is no struct, a declared primitive that
\* is an array or a struct, or that goes on after a primitive, ends the call
\* with an error and no value acknowledgement.
C9_Claim ==
    [][(ValueQueryReceived /\ IsMismatch(SelectRoot(Data, lastResp.path))) =>
          /\ pc' = "done"
          /\ result'.status = "err"
          /\ req' = req
          /\ nExch' = nExch]_vars

\* The leaf a value request selects is one both drivers encode: the bytes
\* the Ledger driver sends for it after the 2-byte length.
LedgerLeafBytes(sel) ==
    SubSeq(leafPayload(ledgerEncodeLeaf(sel.t, sel.v).enc), 3,
           Len(leafPayload(ledgerEncodeLeaf(sel.t, sel.v).enc)))

BothEncode(sel) ==
    /\ sel.at = "leaf"
    /\ ledgerEncodeLeaf(sel.t, sel.v).err = "none"
    /\ pc' = "trezor"
    /\ req'.kind = "ValueAck"

\* C10 as claimed: for a primitive leaf that both drivers encode, the bytes
\* of the value acknowledgement are the Ledger driver's struct-field-value
\* payload of that leaf without its first two bytes.
C10_Claim ==
    [][(ValueQueryReceived /\ BothEncode(SelectRoot(Data, lastResp.path))) =>
          req'.value = LedgerLeafBytes(SelectRoot(Data, lastResp.path))]_vars

\* The ordered comparison of two versions (major, minor, patch).
VersionBelow(v, min) ==
    \/ v[1] < min[1]
    \/ v[1] = min[1] /\ v[2] < min[2]
    \/ v[1] = min[1] /\ v[2] = min[2] /\ v[3] < min[3]

MinLedgerVersion == << 1, 5, 0 >>

\* C11 as claimed: SignedTypedData and SignText of the Ledger driver on an
\* open device end with the firmware error and no exchange exactly when the
\* version, compared as the ordered tuple (major, minor, patch), is below
\* (1, 5, 0); every version at or above it passes the gate.
C11_Claim ==
    (call.driver = "ledger" /\ ~device.offline) =>
        IF VersionBelow(device.version, MinLedgerVersion)
        THEN pc = "done" /\ result = Failed("UnsupportedFirmware") /\ nExch = 0
        ELSE result # Failed("UnsupportedFirmware")

\* C12: on an open Trezor device of major version 1, SignedTypedData never
\* enters the interactive protocol (no sign request, no struct or value
\* acknowledgement, no exchange of the loop); for a document that has a
\* digest D it calls SignTypedHash with the path, domainHash = D[2:34] and
\* messageHash = D[34:66].  On any other major version SignTypedHash is not
\* called.
C12_LegacyFallback ==
    IsTrezorTyped =>
        /\ device.version[1] = 1 =>
             /\ pc = "done"
             /\ nExch = 0
             /\ req.kind \notin {"EthereumSignTypedData", "StructAck", "ValueAck"}
        /\ (device.version[1] = 1 /\ ~device.offline /\ TypedDataAndHashOk(Data)) =>
             /\ req.kind = "SignTypedHash"
             /\ req.AddressN = call.path
             /\ req.domainHash = SubSeq(TypedDataAndHash(call.doc), 3, 34)
             /\ req.messageHash = SubSeq(TypedDataAndHash(call.doc), 35, 66)
             /\ Len(req.domainHash) = 32 /\ Len(req.messageHash) = 32
        /\ device.version[1] # 1 => req.kind # "SignTypedHash"

\* A version 1 device signed the hashes of the Order document.
C12_Witness ==
    /\ IsTrezorTyped
    /\ device.version[1] = 1
    /\ call.doc = 2
    /\ req.kind = "SignTypedHash"
    /\ result.status = "ok"

\* Some field of some declared struct has a type that parseType refuses.
HasUnresolvedField(data) ==
    \E k \in DOMAIN data.Types : \E i \in 1..Len(data.Types[k]) :
        parseType(data.Types, data.Types[k][i].Type).err # "none"

\* C13 as claimed: a run of ledgerSignTypedData on a document with a field
\* whose type does not resolve makes no exchange with the device, and ends
\* with the parse error.
C13_Claim ==
    (/\ IsLedgerTyped
     /\ ledgerTypedDataPrecheck(device, Data) = "none"
     /\ HasUnresolvedField(Data)) =>
        /\ nExch = 0
        /\ log = << >>
        /\ pc = "done" => result.status = "err"

\* ------------------------------------------------- parseType on its own

s_foo == << "f", "o", "o" >>

\* The type expressions tried: a base name, digits, array suffixes.
ParsePrefixes == { s_int, s_uint, s_bytes, s_address, s_bool, s_string, s_foo, s_Person }

ParseDigits ==
    { << >>, << "0" >>, << "1" >>, << "7" >>, << "8" >>, << "0", "8" >>, << "1", "6" >>,
      << "3", "2" >>, << "3", "3" >>, << "2", "5", "6" >>, << "2", "6", "4" >> }

ParseSuffixes == { << >>, << "[", "]" >>, << "[", "2", "]", "[", "]" >> }

\* Expressions without a base name, and one with text after the suffix.
ParseOddities ==
    { << >>, << " " >>, << "[", "]" >>, << "[", "2", "]" >>,
      s_uint8 \o << "[", "]", "x" >>, << " " >> \o s_uint8 \o << " " >> }

TypeExprs ==
    { p \o d \o a : p \in ParsePrefixes, d \in ParseDigits, a \in ParseSuffixes }
        \cup ParseOddities

\* The documents whose Types the expressions are resolved against: Person
\* is declared in the second one only.
ParseDocs == { 1, 2 }

InitParse ==
    /\ pc = "parse"
    /\ device \in { d \in Devices : d.driver = "ledger" /\ ~d.offline /\ d.version[1] = 2 }
    /\ call \in { [NoCall EXCEPT !.op = "parseType", !.doc = d, !.text = t] :
                    d \in ParseDocs, t \in TypeExprs }
    /\ steps = << >>
    /\ nExch = 0
    /\ exchFailed = FALSE
    /\ log = << >>
    /\ lastReply = << >>
    /\ result = NoResult
    /\ req = NoMessage
    /\ nestedArray = FALSE
    /\ lastResp = NoMessage
    /\ document = Docs[call.doc]

\* parseType applied to the expression: result holds what it returns.
ParseType ==
    /\ pc = "parse"
    /\ pc' = "done"
    /\ result' = parseType(Data.Types, call.text)
    /\ UNCHANGED << device, call, steps, nExch, exchFailed, log, lastReply, req, nestedArray,
                    lastResp >>
    /\ UNCHANGED document

NextParse == ParseType

SpecParse == InitParse /\ [][NextParse]_vars

\* What the width rules give for a base name made of this prefix and these
\* digits: the error, the kind and the width.
WidthRule(prefix, digits, r) ==
    CASE prefix \in {s_int, s_uint} ->
            /\ r.dt = (IF prefix = s_int THEN IntType ELSE UintType)
            /\ IF digits = << >> THEN r.err = "none" /\ r.byteLength = 32
               ELSE IF Atoi(digits) % 8 = 0 /\ Atoi(digits) \div 8 \in 1..32
               THEN r.err = "none" /\ r.byteLength = Atoi(digits) \div 8
               ELSE r.err = "InvalidLength"
      [] prefix = s_bytes ->
            IF digits = << >> THEN r.err = "none" /\ r.dt = BytesType
            ELSE IF Atoi(digits) \in 1..32
            THEN r.err = "none" /\ r.dt = FixedBytesType /\ r.byteLength = Atoi(digits)
            ELSE r.err = "InvalidLength"
      [] prefix = s_address ->
            IF digits = << >> THEN r.err = "none" /\ r.dt = AddressType /\ r.byteLength = 20
            ELSE r.err = "InvalidType"
      [] prefix = s_bool ->
            IF digits = << >> THEN r.err = "none" /\ r.dt = BoolType ELSE r.err = "InvalidType"
      [] prefix = s_string ->
            IF digits = << >> THEN r.err = "none" /\ r.dt = StringType
            ELSE r.err = "InvalidType"
      [] OTHER -> r.err = "UnknownType"

\* C14: for a base name (prefix, then digits) that is not a declared
\* struct, parseType returns: int and uint without digits width 32, with
\* digits the width digits/8 when digits is a multiple of 8 and the width is
\* in 1..32, else the length error; bytes without digits dynamic bytes, with
\* digits fixed bytes of that width when in 1..32, else the length error;
\* address width 20; digits after address, bool or string the type error;
\* any other prefix the unknown-type error.  Every result without error
\* that is no struct has one primitive kind and, when sized, a width in
\* 1..32.
C14_WidthRules ==
    (call.op = "parseType" /\ pc = "done") =>
        /\ \A p \in ParsePrefixes, d \in ParseDigits, a \in ParseSuffixes :
             (call.text = p \o d \o a /\ (p \o d) \notin DOMAIN Data.Types) =>
                WidthRule(p, d, result)
        /\ (result.err = "none" /\ result.dt # CustomType) =>
             /\ result.dt \in {IntType, UintType, AddressType, BoolType, StringType,
                               FixedBytesType, BytesType}
             /\ result.dt \in {IntType, UintType, FixedBytesType} =>
                  result.byteLength \in 1..32

\* uint264 was refused for its width.
C14_Witness ==
    /\ call.op = "parseType"
    /\ pc = "done"
    /\ call.text = s_uint \o << "2", "6", "4" >>
    /\ result.err = "InvalidLength"

\* C15: at every point of a typed-data call of either driver, and after it
\* has returned a signature or an error, the caller's document is the one
\* that was passed: Types, PrimaryType, Domain and Message are unchanged.
C15_DocumentUnchanged ==
    (call.op = "typed" /\ call.driver \in {"ledger", "trezor"}) =>
        /\ document.Types = Docs[call.doc].Types
        /\ document.PrimaryType = Docs[call.doc].PrimaryType
        /\ document.Domain = Docs[call.doc].Domain
        /\ document.Message = Docs[call.doc].Message

\* A Trezor call on the Order document answered a struct request and a
\* value request and then failed.
C15_Witness ==
    /\ IsTrezorTyped
    /\ call.doc = 2
    /\ pc = "done"
    /\ nExch = 3
    /\ result.status = "err"
    /\ document = DocOrder

\* The four bytes of seq from position i on, read as a big-endian number.
BigEndian4(seq, i) ==
    16777216 * seq[i] + 65536 * seq[i + 1] + 256 * seq[i + 2] + seq[i + 3]

CountDims(t) == Cardinality({ i \in 1..Len(t) : t[i] = "[" })

Min(a, b) == IF a < b THEN a ELSE b

\* The element reached from v by the k indices of path from position i on.
RECURSIVE ElemsAt(_, _, _, _)
ElemsAt(v, path, i, k) ==
    IF k = 0 THEN v ELSE ElemsAt(ElemAt(v, path[i]), path, i + 1, k - 1)

NestedFlags(declared, descended) == [declared |-> declared, descended |-> descended]

\* What a member path that was resolved went through, read off the document:
\* declared: a field whose type declares more than one array dimension;
\* descended: more than one element selection within one field.  At
\* position i the path selects a field of the struct, and the k indices
\* after it select elements within that field.
RECURSIVE NestedAlong(_, _, _, _, _)
NestedField(types, f, v, path, i, k) ==
    IF i + k + 1 > Len(path)
    THEN NestedFlags(CountDims(f.Type) > 1, k > 1)
    ELSE NestedFlags(
            CountDims(f.Type) > 1
                \/ NestedAlong(types, TypeBase(f.Type),
                               ElemsAt(MapGet(v, f.Name), path, i + 1, k).v,
                               path, i + k + 1).declared,
            k > 1
                \/ NestedAlong(types, TypeBase(f.Type),
                               ElemsAt(MapGet(v, f.Name), path, i + 1, k).v,
                               path, i + k + 1).descended)

NestedAlong(types, name, v, path, i) ==
    IF i > Len(path) THEN NestedFlags(FALSE, FALSE)
    ELSE NestedField(types, types[name][path[i] + 1], v, path, i,
                     Min(CountDims(types[name][path[i] + 1].Type), Len(path) - i))

NestedRoot(data, path) ==
    IF path[1] = 0
    THEN NestedAlong(data.Types, s_EIP712Domain, DomainMap(data.Domain), path, 2)
    ELSE NestedAlong(data.Types, data.PrimaryType, data.Message, path, 2)

\* A value request is answered with a value acknowledgement in this step.
ValueQueryAnswered == ValueQueryReceived /\ pc' = "trezor"

\* An exchange of the loop fails in this step.
LoopExchangeFails == IsTrezorTyped /\ pc = "trezor" /\ nExch' > nExch /\ lastResp'.kind = "error"

\* The failure of an exchange is reported as NestedArraysUnsupported exactly
\* when the flag is set and the device reported the firmware error code;
\* the flag is unset unless the request just answered was a value request.
C17_FailureRule ==
    /\ [][LoopExchangeFails =>
            /\ pc' = "done"
            /\ (result'.err = "NestedArraysUnsupported")
                 <=> (nestedArray /\ lastResp'.code = "Failure_FirmwareError")]_vars
    /\ []((result.err = "NestedArraysUnsupported") =>
            (IsTrezorTyped /\ exchFailed /\ lastResp.code = "Failure_FirmwareError"))
    /\ []((IsTrezorTyped /\ pc = "trezor" /\ (nExch = 0 \/ lastResp.kind # "value")) =>
            ~nestedArray)

\* C17 as claimed: the flag is set by a value request exactly when its
\* path descended through more than one array dimension, and a failure is
\* reported as NestedArraysUnsupported only with the flag set and the
\* firmware error code.
C17_Claim ==
    /\ [][ValueQueryAnswered =>
            (nestedArray' <=> NestedRoot(Data, lastResp.path).descended)]_vars
    /\ C17_FailureRule

\* C17: the flag is set by a value request exactly when its path went
\* through a field whose declared type has more than one array dimension,
\* whether or not the path descended into those dimensions; the failure of
\* the exchange that follows is reported as NestedArraysUnsupported exactly
\* when the flag is set and the device reported the firmware error code,
\* and as the error of the exchange otherwise.
C17_NestedDeclared ==
    /\ [][ValueQueryAnswered =>
            (nestedArray' <=> NestedRoot(Data, lastResp.path).declared)]_vars
    /\ C17_FailureRule

\* The exchange after a value request on the Order document failed and was
\* reported as a nested array that the firmware does not support.
C17_Witness ==
    /\ IsTrezorTyped
    /\ call.doc = 2
    /\ pc = "done"
    /\ nExch = 2
    /\ exchFailed
    /\ nestedArray
    /\ result = Failed("NestedArraysUnsupported")

\* C18: an exchange of the loop that returns no error clears the flag, so
\* the flag is never set when a response is handled and only the exchange
\* directly after a value request can find it set; the failure of an
\* exchange that follows the sign request, a struct request or a value
\* request that left the flag unset is returned as the exchange's own error,
\* whatever its code; every call starts with the flag unset.
C18_FlagScope ==
    /\ [][(IsTrezorTyped /\ pc = "trezor" /\ pc' = "trezorGot") => ~nestedArray']_vars
    /\ [](pc = "trezorGot" => ~nestedArray)
    /\ [][(/\ LoopExchangeFails
           /\ \/ nExch = 0
              \/ lastResp.kind = "struct"
              \/ lastResp.kind = "value" /\ ~nestedArray) =>
            result' = Failed(IF lastResp'.code = "Transport" THEN "TransportError"
                             ELSE "TrezorFailure")]_vars
    /\ [][(pc = "idle" /\ pc' # "idle") => ~nestedArray']_vars

\* The third exchange of a call on the Order document, after a struct
\* request, failed with the firmware error code and was returned as such.
C18_Witness ==
    /\ IsTrezorTyped
    /\ call.doc = 2
    /\ pc = "done"
    /\ nExch = 3
    /\ lastResp.kind = "error"
    /\ lastResp.code = "Failure_FirmwareError"
    /\ ~nestedArray
    /\ result = Failed("TrezorFailure")

\* The path ends at an array: a field declared as an array, or an element,
\* itself an array, of a field declared with several dimensions.
EndsAtArray(sel) == sel.at = "array"

\* C19: a value request whose path ends at an array, at any depth of a
\* field with several dimensions, is answered with a value acknowledgement
\* of two bytes, the number of elements of that array in big-endian order,
\* and not with the bytes of any element.
C19_ArrayLength ==
    [][(ValueQueryReceived /\ EndsAtArray(SelectRoot(Data, lastResp.path))) =>
          /\ pc' = "trezor"
          /\ req'.kind = "ValueAck"
          /\ Len(req'.value) = 2
          /\ req'.value[1] * 256 + req'.value[2] =
                Len(SelectRoot(Data, lastResp.path).v.v)]_vars

\* The length of an inner array of a field with two dimensions was
\* answered: the path goes one element into the field and ends there.
C19_Witness ==
    /\ IsTrezorTyped
    /\ pc = "trezor"
    /\ nExch > 0
    /\ req.kind = "ValueAck"
    /\ Len(req.value) = 2
    /\ call.doc = 2
    /\ \E p \in MemberPaths :
          /\ Len(p) = 3
          /\ EndsAtArray(SelectRoot(Data, p))
          /\ CountDims(SelectRoot(Data, p).t) = 1
          /\ req.value = Uint16BE(Len(SelectRoot(Data, p).v.v))

\* One written dimension: its length for [N], none for [].
DimLevel(digits) == ArrayLevel(digits)

DimSize(digits) == IF digits = << >> THEN NoSize ELSE Atoi(digits)

\* The dimensions of a type expression in the order they are written.
RECURSIVE DimsAsWritten(_)
DimsAsWritten(t) ==
    IF IndexOf(t, "[") < 0 THEN << >>
    ELSE << DimLevel(SubSeq(t, IndexOf(t, "[") + 2, IndexOf(t, "]"))) >>
            \o DimsAsWritten(SubSeq(t, IndexOf(t, "]") + 2, Len(t)))

BaseOf(t) == IF IndexOf(t, "[") < 0 THEN t ELSE SubSeq(t, 1, IndexOf(t, "["))

\* The type expression without its first, without its last dimension.
DropFirstDim(t) == SubSeq(t, 1, IndexOf(t, "[")) \o SubSeq(t, IndexOf(t, "]") + 2, Len(t))

DropLastDim(t) == SubSeq(t, 1, LastIndexOf(t, "["))

FirstDimSize(t) == DimSize(SubSeq(t, IndexOf(t, "[") + 2, IndexOf(t, "]")))

LastDimSize(t) == DimSize(SubSeq(t, LastIndexOf(t, "[") + 2, Len(t) - 1))

\* The description of a type expression with the first written dimension
\* as the outermost ARRAY tag.
RECURSIVE NestFirstOutermost(_, _)
NestFirstOutermost(types, t) ==
    IF IndexOf(t, "[") < 0 THEN trezorBaseType(types, parseType(types, t))
    ELSE FieldType("ARRAY", FirstDimSize(t), << >>,
                   << NestFirstOutermost(types, DropFirstDim(t)) >>)

\* The description of a type expression with the last written dimension as
\* the outermost ARRAY tag: T[2][] is an array without length of T[2].
RECURSIVE NestLastOutermost(_, _)
NestLastOutermost(types, t) ==
    IF IndexOf(t, "[") < 0 THEN trezorBaseType(types, parseType(types, t))
    ELSE FieldType("ARRAY", LastDimSize(t), << >>,
                   << NestLastOutermost(types, DropLastDim(t)) >>)

\* A struct request for a declared struct with fields, all of which parse,
\* is about to be handled.
StructQueryReceived ==
    /\ IsTrezorTyped
    /\ pc = "trezorGot"
    /\ lastResp.kind = "struct"
    /\ Len(TypeFields(Data.Types, lastResp.name)) > 0
    /\ \A i \in 1..Len(TypeFields(Data.Types, lastResp.name)) :
          parseType(Data.Types, TypeFields(Data.Types, lastResp.name)[i].Type).err = "none"

\* Every declared field type of the document has its dimensions recorded
\* in the order they are written.
DimsRecordedAsWritten ==
    \A name \in DOMAIN Data.Types :
        \A i \in 1..Len(Data.Types[name]) :
            parseType(Data.Types, Data.Types[name][i].Type).arrays =
                DimsAsWritten(Data.Types[name][i].Type)

\* C20 as claimed: dimensions are recorded as written, and the struct
\* acknowledgement has one member per declared field, in declared order,
\* each described by nested ARRAY tags in the written order of its
\* dimensions, the first written being the outermost.
C20_Claim ==
    /\ []DimsRecordedAsWritten
    /\ [][StructQueryReceived =>
            /\ pc' = "trezor"
            /\ req'.kind = "StructAck"
            /\ req'.members =
                  [i \in 1..Len(TypeFields(Data.Types, lastResp.name)) |->
                      [Name |-> TypeFields(Data.Types, lastResp.name)[i].Name,
                       Type |-> NestFirstOutermost(
                                   Data.Types,
                                   TypeFields(Data.Types, lastResp.name)[i].Type)]]]_vars

\* C20, amended: dimensions are recorded as written, and the struct
\* acknowledgement has one member per declared field, in declared order,
\* each described by nested ARRAY tags in the reverse of the written order:
\* the outermost tag is the last written dimension, the innermost the
\* first; a fixed dimension carries its length as size, a dynamic one no
\* size, and a struct base its number of fields.
C20_LastDimOutermost ==
    /\ []DimsRecordedAsWritten
    /\ [][StructQueryReceived =>
            /\ pc' = "trezor"
            /\ req'.kind = "StructAck"
            /\ req'.members =
                  [i \in 1..Len(TypeFields(Data.Types, lastResp.name)) |->
                      [Name |-> TypeFields(Data.Types, lastResp.name)[i].Name,
                       Type |-> NestLastOutermost(
                                   Data.Types,
                                   TypeFields(Data.Types, lastResp.name)[i].Type)]]]_vars

\* The Order struct was described: its field grid, uint16[2][], as an ARRAY
\* without size of ARRAYs of size 2, its field maker as a STRUCT of three
\* fields.
C20_Witness ==
    /\ IsTrezorTyped
    /\ call.doc = 2
    /\ pc = "trezor"
    /\ nExch > 0
    /\ req.kind = "StructAck"
    /\ Len(req.members) = 3
    /\ req.members[2].Type.DataType = "ARRAY"
    /\ req.members[2].Type.Size = NoSize
    /\ req.members[2].Type.EntryType[1].Size = 2
    /\ req.members[3].Type = FieldType("STRUCT", 3, s_Person, << >>)

\* What phase 1 is to send for the structs in the order the map iteration
\* visits them: per struct its name, then its fields as declared.
DefName(name) == [what |-> "name", s |-> name, t |-> << >>]

DefField(field) == [what |-> "field", s |-> field.Name, t |-> field.Type]

ExpectedDefs(types, order) ==
    Flatten([k \in 1..Len(order) |->
                << DefName(order[k]) >>
                \o [j \in 1..Len(types[order[k]]) |-> DefField(types[order[k]][j])]])

\* The field's type is one a width byte is sent for: int, uint with or
\* without digits, bytes with digits, and no declared struct.
HasWidthByte(types, t) ==
    /\ ~HasType(types, BaseOf(t))
    /\ \/ IsNumericType(BaseOf(t))
       \/ HasPrefix(BaseOf(t), s_bytes) /\ Len(BaseOf(t)) > Len(s_bytes)

HasDimension(t) == IndexOf(t, "[") >= 0

Bit(byte, weight) == (byte \div weight) % 2 = 1

\* The message is the one phase 1 is to send for the entry.
IsDefOf(types, m, entry) ==
    /\ IsStructDef(m)
    /\ m.p1 = 0
    /\ IF entry.what = "name"
       THEN /\ m.p2 = ledgerP2StructName
            /\ m.data = StrBytes(entry.s)
       ELSE /\ m.p2 = ledgerP2StructField
            /\ Len(m.data) > 0
            /\ Bit(m.data[1], 64) <=> HasWidthByte(types, entry.t)
            /\ Bit(m.data[1], 128) <=> HasDimension(entry.t)
            /\ HasSuffix(m.data, << Len(entry.s) >> \o StrBytes(entry.s))

\* The messages sent so far are the first of the expected ones, and all of
\* them once phase 1 is over.
DefsSent(types, defs, expected, over) ==
    /\ Len(defs) <= Len(expected)
    /\ \A i \in 1..Len(defs) : IsDefOf(types, defs[i], expected[i])
    /\ over => Len(defs) = Len(expected)

IsPermutationOf(order, names) ==
    /\ Len(order) = Cardinality(names)
    /\ { order[i] : i \in 1..Len(order) } = names

\* C21: phase 1 of ledgerSignTypedData sends, for every declared struct
\* once, the struct-name message and directly after it one struct-field
\* message per field in declared order; in a field message bit 0x40 of the
\* descriptor byte is set exactly for int, uint and fixed bytes, bit 0x80
\* exactly for a type with an array dimension.  At any moment the
\* definitions sent are the first of that sequence, and all of it once a
\* message of phase 2 has been sent.
C21_StructDefinitions ==
    [](IsLedgerTyped /\ Len(log) > 0 =>
          /\ IsPermutationOf(call.order, DOMAIN Data.Types)
          /\ DefsSent(Data.Types, SelectSeq(log, IsStructDef),
                      ExpectedDefs(Data.Types, call.order),
                      \E i \in 1..Len(log) : ~IsStructDef(log[i])))

\* Phase 1 on the Order document is over: three struct names and eight
\* fields, among them a two-dimensional array of uint16 and a struct.
C21_Witness ==
    /\ IsLedgerTyped
    /\ call.doc = 2
    /\ Len(SelectSeq(log, IsStructDef)) = 11
    /\ \E i \in 1..Len(log) : IsRootMarker(log[i])
    /\ \E i \in 1..Len(log) :
          /\ IsStructDef(log[i])
          /\ log[i].p2 = ledgerP2StructField
          /\ log[i].data[1] = UintType + 64 + 128

\* Every field of the struct is a primitive without array dimension.
IsPrimitiveStruct(types, name) ==
    /\ HasType(types, name)
    /\ \A i \in 1..Len(types[name]) :
          ~HasDimension(types[name][i].Type) /\ ~HasType(types, types[name][i].Type)

FirstMarker == CHOOSE i \in RootMarkers : \A j \in RootMarkers : i <= j

LastMarker == CHOOSE i \in RootMarkers : \A j \in RootMarkers : j <= i

\* The value messages sent after the first root marker and before the
\* second; those sent after the second.
DomainValues ==
    SubSeq(log, FirstMarker + 1,
           IF Cardinality(RootMarkers) > 1 THEN LastMarker - 1 ELSE Len(log))

MessageValues == SelectSeq(SubSeq(log, LastMarker + 1, Len(log)), IsStructValue)

\* The payload is a two-byte big-endian length, equal to the number of
\* bytes after it, and then the bytes of the value.
IsLeafMessage(data, t, v) ==
    /\ Len(data) >= 2
    /\ data[1] * 256 + data[2] = Len(data) - 2
    /\ SubSeq(data, 3, Len(data)) = LeafBytes(t, v)

\* The value messages sent so far are those of the first fields, one
\* struct-field-value message each, and of all fields once the struct is over.
ValuesSent(fields, m, vals, over) ==
    /\ Len(vals) <= Len(fields)
    /\ \A i \in 1..Len(vals) :
          /\ vals[i].ins = ledgerOpEip712SendStructImpl
          /\ vals[i].p1 = ledgerP1CompleteSend
          /\ vals[i].p2 = ledgerP2StructField
          /\ IsLeafMessage(vals[i].data, fields[i].Type, MapGet(m, fields[i].Name))
    /\ over => Len(vals) = Len(fields)

\* C22: for a root struct whose fields are all primitives without array
\* dimension, ledgerSignTypedData sends no array-length message and one
\* struct-field-value message per declared field, in declared order; each
\* payload is a two-byte big-endian length equal to the number of bytes
\* that follow, then the value: a string as its bytes, a 0x string decoded,
\* a boolean as one byte 0 or 1, a number as its shortest big-endian
\* magnitude.
C22_PrimitiveValues ==
    [](IsLedgerTyped /\ RootMarkers # {} =>
          /\ IsPrimitiveStruct(Data.Types, s_EIP712Domain) =>
                ValuesSent(Data.Types[s_EIP712Domain], DomainMap(Data.Domain), DomainValues,
                           Cardinality(RootMarkers) > 1)
          /\ (Cardinality(RootMarkers) > 1 /\ IsPrimitiveStruct(Data.Types, Data.PrimaryType)) =>
                ValuesSent(Data.Types[Data.PrimaryType], Data.Message, MessageValues,
                           \E i \in 1..Len(log) : IsSignTyped(log[i])))

\* The struct {a: uint8 = 5, b: string = "hi"} was sent as 00 01 05 and
\* 00 02 68 69, and the call returned a signature.
C22_Witness ==
    /\ IsLedgerTyped
    /\ call.doc = 10
    /\ pc = "done"
    /\ result.status = "ok"
    /\ Cardinality(RootMarkers) = 2
    /\ Len(MessageValues) = 2
    /\ MessageValues[1].data = << 0, 1, 5 >>
    /\ MessageValues[2].data = << 0, 2, 104, 105 >>

IsArrayLength(m) == m.ins = ledgerOpEip712SendStructImpl /\ m.p2 = ledgerP2Array

\* The numbers of elements of the arrays of a value, in the order in which
\* the arrays are met when the value is walked field by field, element by
\* element.
RECURSIVE ArrayCounts(_, _, _)
ArrayCounts(types, t, v) ==
    IF v.k = "nil" THEN << >>
    ELSE IF HasSuffix(t, << "]" >>)
    THEN IF v.k # "arr" THEN << >>
         ELSE << Len(v.v) >>
              \o Flatten([i \in 1..Len(v.v) |-> ArrayCounts(types, DropLastDim(t), v.v[i])])
    ELSE IF HasType(types, t)
    THEN IF v.k # "map" THEN << >>
         ELSE Flatten([i \in 1..Len(types[t]) |->
                          ArrayCounts(types, types[t][i].Type,
                                      MapGet(v.v, types[t][i].Name))])
    ELSE << >>

\* Every array-length message sent so far carries, in its one byte, the
\* number of elements of the array it opens.
ArrayLengthsSent(sent, counts) ==
    /\ Len(sent) <= Len(counts)
    /\ \A i \in 1..Len(sent) : sent[i].data = << counts[i] >>

\* The array block of a struct-field definition: the number of dimensions,
\* then per dimension 0, or 1 and the declared length.
DimBlock(dims) ==
    IF Len(dims) = 0 THEN << >>
    ELSE << Len(dims) >>
         \o Flatten([i \in 1..Len(dims) |->
                        IF dims[i].fixed THEN << 1, dims[i].len >> ELSE << 0 >>])

\* Every struct-field definition sent so far carries the declared length of
\* each fixed dimension.
FixedLengthsSent(defs, expected) ==
    \A i \in 1..Min(Len(defs), Len(expected)) :
        expected[i].what = "field" =>
            HasSuffix(defs[i].data,
                      DimBlock(DimsAsWritten(expected[i].t))
                          \o << Len(expected[i].s) >> \o StrBytes(expected[i].s))

C23_ArrayLengthBytes ==
    (IsLedgerTyped /\ Len(log) > 0) =>
        ArrayLengthsSent(SelectSeq(log, IsArrayLength),
                         ArrayCounts(Data.Types, s_EIP712Domain, VMap(DomainMap(Data.Domain)))
                             \o ArrayCounts(Data.Types, Data.PrimaryType, VMap(Data.Message)))

C23_DimensionBytes ==
    (IsLedgerTyped /\ Len(log) > 0) =>
        FixedLengthsSent(SelectSeq(log, IsStructDef), ExpectedDefs(Data.Types, call.order))

\* C23 as claimed: the byte of every array-length message of phase 2 is the
\* number of elements sent after it at that level, for arrays of every
\* length, 256 and more included; and the length byte of a fixed dimension
\* in a struct-field definition is the declared length.
C23_Claim == [](C23_ArrayLengthBytes /\ C23_DimensionBytes)

\* ledgerSignTypedData runs on: every exchange returns, and the code
\* between two exchanges is executed.
SpecFair == Spec /\ WF_vars(LedgerExchange) /\ WF_vars(LedgerAbort)

\* The nodes of a value that take an exchange when the value is walked
\* along its declared type: one per array and one per primitive.
RECURSIVE ValueNodes(_, _, _)
ValueNodes(types, t, v) ==
    IF v.k = "nil" THEN << >>
    ELSE IF HasSuffix(t, << "]" >>)
    THEN IF v.k # "arr" THEN << >>
         ELSE << "array" >>
              \o Flatten([i \in 1..Len(v.v) |-> ValueNodes(types, DropLastDim(t), v.v[i])])
    ELSE IF HasType(types, t)
    THEN IF v.k # "map" THEN << >>
         ELSE Flatten([i \in 1..Len(types[t]) |->
                          ValueNodes(types, types[t][i].Type, MapGet(v.v, types[t][i].Name))])
    ELSE << "leaf" >>

\* Some declared field met on the walk of the value has no value.
RECURSIVE HasMissingValue(_, _, _)
HasMissingValue(types, t, v) ==
    IF v.k = "nil" THEN TRUE
    ELSE IF HasSuffix(t, << "]" >>)
    THEN v.k = "arr" /\ \E i \in 1..Len(v.v) : HasMissingValue(types, DropLastDim(t), v.v[i])
    ELSE /\ HasType(types, t)
         /\ v.k = "map"
         /\ \E i \in 1..Len(types[t]) :
               HasMissingValue(types, types[t][i].Type, MapGet(v.v, types[t][i].Name))

DocHasMissingValue(data) ==
    \/ HasMissingValue(data.Types, s_EIP712Domain, VMap(DomainMap(data.Domain)))
    \/ HasMissingValue(data.Types, data.PrimaryType, VMap(data.Message))

\* The most exchanges a call can make on the document: the definitions, the
\* two root markers, one per array and primitive of the two values, and the
\* sign command.
ExchangeBound(data, order) ==
    Len(ExpectedDefs(data.Types, order)) + 2
        + Len(ValueNodes(data.Types, s_EIP712Domain, VMap(DomainMap(data.Domain))))
        + Len(ValueNodes(data.Types, data.PrimaryType, VMap(data.Message))) + 1

\* C24: ledgerSignTypedData ends after finitely many exchanges on every
\* document, a struct that refers to itself included: the number of
\* exchanges is bounded by the size of the declarations and of the value
\* tree, a call under way comes to its end, and on a document with a
\* declared field that has no value the sign command is never sent and the
\* call ends with an error.
C24_Terminates ==
    /\ [](IsLedgerTyped /\ Len(log) > 0 =>
             /\ nExch <= ExchangeBound(Data, call.order)
             /\ Len(log) <= ExchangeBound(Data, call.order))
    /\ [](IsLedgerTyped /\ Len(log) > 0 /\ DocHasMissingValue(Data) =>
             /\ \A i \in 1..Len(log) : ~IsSignTyped(log[i])
             /\ pc = "done" => result.status = "err")
    /\ (IsLedgerTyped /\ pc = "ledger") ~> (pc = "done")

\* The call on the self-referential Node document sent the name of the
\* inner node and then ended on the missing next with the nil-value error.
C24_Witness ==
    /\ IsLedgerTyped
    /\ call.doc = 13
    /\ pc = "done"
    /\ result = Failed("NilValue")
    /\ ~exchFailed
    /\ Len(MessageValues) = 2
    /\ \A i \in 1..Len(log) : ~IsSignTyped(log[i])

\* Any value request, whatever its member path, is about to be handled.
AnyValueQueryReceived ==
    /\ IsTrezorTyped
    /\ pc = "trezorGot"
    /\ lastResp.kind = "value"

AllZero(bytes) == \A i \in 1..Len(bytes) : bytes[i] = 0

\* The bytes are what the document holds where the path ends: the bytes of
\* a primitive value, or the number of elements of an array.
IsDocumentValue(bytes, sel) ==
    \/ IsPrimitiveLeaf(sel) /\ IsLeafBytes(bytes, sel.t, sel.v)
    \/ /\ EndsAtArray(sel)
       /\ IsArrayKind(sel.v)
       /\ bytes = Uint16BE(Len(sel.v.v))

\* Handling the value request does not panic.
C25_NoPanic == [][AnyValueQueryReceived => result'.status # "panic"]_vars

\* A value acknowledgement that is empty or all zero holds the document's
\* value.
C25_NoFabrication ==
    [][(AnyValueQueryReceived /\ pc' = "trezor") =>
          /\ req'.kind = "ValueAck"
          /\ AllZero(req'.value) =>
                /\ Len(lastResp.path) > 0
                /\ IsDocumentValue(req'.value, SelectRoot(Data, lastResp.path))]_vars

\* C25 as claimed: for every value request the device can send, an empty
\* member path and a path of the root index alone included, the call either
\* acknowledges with the encoded value of the document or ends with an
\* error; it never panics and never acknowledges with an empty or all-zero
\* value that is not the document's.
C25_Claim == C25_NoPanic /\ C25_NoFabrication

\* C26 as claimed: parseType returns a type or an error for every type
\* expression, the empty one, one made of array suffixes only and one with
\* text after a suffix included, and never panics.
C26_Claim == (call.op = "parseType" /\ pc = "done") => result.err # "panic"

====
